---------------------------- MODULE Spec2Model ----------------------------
(***************************************************************************)
(* A model of tinytag (src/tinytag/tinytag.py): the tag accumulator        *)
(* (TinyTag._set_field, TinyTag._update), the format sniffer               *)
(* (TinyTag._get_parser_class and its two helpers), the facade             *)
(* (TinyTag.get, TinyTag._load) and the tag passes of the FLAC and ID3     *)
(* decoders.                                                               *)
(*                                                                         *)
(* Bytes are numbers 0..255 and byte strings are sequences of them.  A     *)
(* Python value held by a field of the record is one of                    *)
(*     None, a str (a sequence of code points) or an int,                  *)
(* written as a record of one shape so that any two values compare.        *)
(*                                                                         *)
(* The module holds one specification per part of the program; each        *)
(* leaves the variables of the other parts at their initial values.        *)
(***************************************************************************)
EXTENDS Integers, Sequences, FiniteSets, TLC

VARIABLES
    tag,        \* accumulator: the TinyTag record being written
    last,       \* accumulator: the writes of the most recent operation
    sn,         \* sniffer: the latest call of _get_parser_class and its result
    mg,         \* sniffer: the streams of the latest two magic-byte lookups
    g,          \* facade: one call of TinyTag.get, its position and its outcome
    i3,         \* ID3: one call of _ID3._parse_tag, its input and its records
    fl,         \* FLAC: one call of _Flac._parse_tag, its input and its records
    mp,         \* MP3: one call of _ID3._determine_duration, its walker and its results
    og,         \* Ogg: one run of _Ogg._parse_pages, its read offset and its packets
    si,         \* FLAC: one decoding of a STREAMINFO block
    iv,         \* ID3v2: one run of _ID3._parse_id3v2 over the bytes of a stream
    wv,         \* WAV: one run of _Wave._parse_tag over the chunks of a stream
    ns,         \* hand-off: a container decoder and the nested decoder it sets up
    m4,         \* MP4: one run of _MP4._traverse_atoms over the atoms of a stream
    fb,         \* the loop of _Flac._parse_tag over the metadata blocks
    ot,         \* Ogg: the loop of _Ogg._parse_tag over the packets of a stream
    wm,         \* WMA: the object loop of _Wma._parse_tag, its read offset and its records
    od,         \* Ogg: the loop of _Ogg._determine_duration, its read offset and the granule positions
    ge,         \* MP4: a gnre data atom and the record after its handler
    im          \* the parse of a stream that may hold pictures

\* what the actions of one part leave alone
notAcc == <<sn, mg, g, i3, fl, mp, og, si, iv, wv, ns, m4, fb, ot, wm, od, ge, im>>
notSniff == <<tag, last, mg, g, i3, fl, mp, og, si, iv, wv, ns, m4, fb, ot, wm, od, ge, im>>
notMagic == <<tag, last, sn, g, i3, fl, mp, og, si, iv, wv, ns, m4, fb, ot, wm, od, ge, im>>
notGet == <<tag, last, sn, mg, i3, fl, mp, og, si, iv, wv, ns, m4, fb, ot, wm, od, ge, im>>
notId3 == <<tag, last, sn, mg, g, fl, mp, og, si, iv, wv, ns, m4, fb, ot, wm, od, ge, im>>
notFlac == <<tag, last, sn, mg, g, i3, mp, og, si, iv, wv, ns, m4, fb, ot, wm, od, ge, im>>
notMp3 == <<tag, last, sn, mg, g, i3, fl, og, si, iv, wv, ns, m4, fb, ot, wm, od, ge, im>>
notOgg == <<tag, last, sn, mg, g, i3, fl, mp, si, iv, wv, ns, m4, fb, ot, wm, od, ge, im>>
notStreamInfo == <<tag, last, sn, mg, g, i3, fl, mp, og, iv, wv, ns, m4, fb, ot, wm, od, ge, im>>
notId3v2 == <<tag, last, sn, mg, g, i3, fl, mp, og, si, wv, ns, m4, fb, ot, wm, od, ge, im>>
notWave == <<tag, last, sn, mg, g, i3, fl, mp, og, si, iv, ns, m4, fb, ot, wm, od, ge, im>>
notNested == <<tag, last, sn, mg, g, i3, fl, mp, og, si, iv, wv, m4, fb, ot, wm, od, ge, im>>
notMp4 == <<tag, last, sn, mg, g, i3, fl, mp, og, si, iv, wv, ns, fb, ot, wm, od, ge, im>>
notFlacBlocks == <<tag, last, sn, mg, g, i3, fl, mp, og, si, iv, wv, ns, m4, ot, wm, od, ge, im>>
notOggTag == <<tag, last, sn, mg, g, i3, fl, mp, og, si, iv, wv, ns, m4, fb, wm, od, ge, im>>
notWma == <<tag, last, sn, mg, g, i3, fl, mp, og, si, iv, wv, ns, m4, fb, ot, od, ge, im>>
notOggDur == <<tag, last, sn, mg, g, i3, fl, mp, og, si, iv, wv, ns, m4, fb, ot, wm, ge, im>>
notGenre == <<tag, last, sn, mg, g, i3, fl, mp, og, si, iv, wv, ns, m4, fb, ot, wm, od, im>>
notImage == <<tag, last, sn, mg, g, i3, fl, mp, og, si, iv, wv, ns, m4, fb, ot, wm, od, ge>>

vars == <<tag, last, sn, mg, g, i3, fl, mp, og, si, iv, wv, ns, m4, fb, ot, wm, od, ge, im>>

(***************************************************************************)
(* Python values                                                           *)
(***************************************************************************)
PyNone == [t |-> "none", s |-> <<>>, n |-> 0]
PyStr(x) == [t |-> "str", s |-> x, n |-> 0]
PyInt(k) == [t |-> "int", s |-> <<>>, n |-> k]

\* bool(value): None, '' and 0 are false
Truthy(v) == (v.t = "str" /\ v.s # <<>>) \/ (v.t = "int" /\ v.n # 0)

NUL == 0

(***************************************************************************)
(* The record: TinyTag.__init__                                            *)
(***************************************************************************)
\* the attributes of the record that the model writes, in the order of
\* TinyTag._update's key tuple
UpdateKeys ==
    <<"track", "track_total", "title", "artist", "album", "year",
      "genre", "disc", "disc_total", "comment">>

AttrNames == {UpdateKeys[i] : i \in DOMAIN UpdateKeys}

\* names that start with 'extra.' and the key left after fieldname[6:]
ExtraNames == {"extra.composer"}

ExtraKey(fieldname) == CASE fieldname = "extra.composer" -> "composer"

ExtraKeys == {ExtraKey(f) : f \in ExtraNames}

\* TinyTag(): every attribute None, extra = {}
NewTag == [attr |-> [k \in AttrNames |-> PyNone], extra |-> [k \in ExtraKeys |-> PyNone]]

\* write_dest.get(fieldname), after the 'extra.' prefix has selected write_dest
GetField(tg, fieldname) ==
    IF fieldname \in ExtraNames
    THEN tg.extra[ExtraKey(fieldname)]
    ELSE tg.attr[fieldname]

PutField(tg, fieldname, value) ==
    IF fieldname \in ExtraNames
    THEN [tg EXCEPT !.extra[ExtraKey(fieldname)] = value]
    ELSE [tg EXCEPT !.attr[fieldname] = value]

\* SetField with a slip: the new value replaces the old one (no NUL merge)
SetFieldOverwrite(tg, fieldname, value) ==
    IF value.t = "str" /\ value.s = <<>>
    THEN tg
    ELSE PutField(tg, fieldname, value)

\* the values and the records of the model
PyValues == [t : {"none", "str", "int"}, s : Seq(Nat), n : Int]

TagRecords == [attr : [AttrNames -> PyValues], extra : [ExtraKeys -> PyValues]]

\* TinyTag._set_field(fieldname, value)
SetFieldOf[tg \in TagRecords, fieldname \in STRING, value \in PyValues] ==
    LET is_str == value.t = "str"
        old_value == GetField(tg, fieldname)
    IN  IF is_str /\ value.s = <<>>
        THEN tg         \* don't set empty value
        ELSE IF is_str /\ Truthy(old_value) /\ old_value # value
             THEN \* Combine same field with a null character
                  PutField(tg, fieldname, PyStr(old_value.s \o <<NUL>> \o value.s))
             ELSE PutField(tg, fieldname, value)

SetField(tg, fieldname, value) == SetFieldOf[tg, fieldname, value]

\* _set_field applied to the (fieldname, value) pairs of a sequence, in order
RECURSIVE SetFields(_, _)
SetFields(tg, items) ==
    IF items = <<>>
    THEN tg
    ELSE SetFields(SetField(tg, items[1].field, items[1].value), Tail(items))

(***************************************************************************)
(* MP4 leaf handlers: _MP4._Parser._make_number_parser and the leaf branch *)
(* of _MP4._traverse_atoms                                                 *)
(***************************************************************************)
\* struct.unpack('>H', two bytes)
UnpackBE16(b1, b2) == b1 * 256 + b2

\* the callable _make_number_parser(fieldname1, fieldname2) returns, applied
\* to a data atom of at least 14 bytes: the dict {fieldname1: numbers[1],
\* fieldname2: numbers[2]} as its items in insertion order
MakeNumberParser(fieldname1, fieldname2, data_atom) ==
    LET number_data == SubSeq(data_atom, 9, 14)
        numbers == <<UnpackBE16(number_data[1], number_data[2]),
                     UnpackBE16(number_data[3], number_data[4]),
                     UnpackBE16(number_data[5], number_data[6])>>
    IN  \* for some reason the first number is always irrelevant.
        <<[field |-> fieldname1, value |-> PyInt(numbers[2])],
          [field |-> fieldname2, value |-> PyInt(numbers[3])]>>

\* the items of a leaf handler that _traverse_atoms passes on to _set_field
LeafItems(items, load_image) ==
    SelectSeq(items, LAMBDA it :
        ~(it.field = "_image_data" /\ ~load_image) /\ it.field # "")

\* _traverse_atoms, path leaf is a callable: every item is written
TraverseLeaf(tg, items, load_image) == SetFields(tg, LeafItems(items, load_image))

(***************************************************************************)
(* The accumulator under arbitrary writes                                  *)
(***************************************************************************)
MaxStrLen == 3      \* longest string a field may grow to
MaxNum == 2         \* largest number written

Letters == {65, 66}                         \* 'A', 'B'
StrFields == {"title", "extra.composer"}
IntFields == {"track", "track_total"}
StrInputs == {<<>>} \cup {<<c>> : c \in Letters}

\* the writes an operation made: field, value written, value held before
Writes(tg, items) ==
    [i \in DOMAIN items |->
        [field |-> items[i].field, value |-> items[i].value,
         old |-> GetField(tg, items[i].field)]]

AccInit ==
    /\ tag = NewTag
    /\ last = <<>>

\* one call of _set_field with a str on a string field
AccSetStr ==
    \E f \in StrFields, x \in StrInputs :
        LET items == <<[field |-> f, value |-> PyStr(x)]>>
            new == SetFields(tag, items)
        IN  /\ Len(GetField(new, f).s) <= MaxStrLen
            /\ tag' = new
            /\ last' = Writes(tag, items)
            /\ UNCHANGED notAcc

\* one call of _set_field with an int on an integer field
AccSetInt ==
    \E f \in IntFields, k \in 0..MaxNum :
        LET items == <<[field |-> f, value |-> PyInt(k)]>>
        IN  /\ tag' = SetFields(tag, items)
            /\ last' = Writes(tag, items)
            /\ UNCHANGED notAcc

\* _traverse_atoms reaches the data atom of a trkn atom (a disk atom runs the
\* same callable on the names disc and disc_total)
AccMp4Number ==
    \E n1 \in 0..MaxNum, n2 \in 0..MaxNum :
        LET data_atom == <<0, 0, 0, 0, 0, 0, 0, 0, 0, 0, 0, n1, 0, n2>>
            items == MakeNumberParser("track", "track_total", data_atom)
        IN  /\ tag' = TraverseLeaf(tag, items, FALSE)
            /\ last' = Writes(tag, LeafItems(items, FALSE))
            /\ UNCHANGED notAcc

AccNext == AccSetStr \/ AccSetInt \/ AccMp4Number


(***************************************************************************)
(* Format sniffer: TinyTag._get_parser_for_filename,                       *)
(* TinyTag._get_parser_for_file_handle, TinyTag._get_parser_class          *)
(***************************************************************************)
MinOf[S \in SUBSET Int] == CHOOSE x \in S : \A y \in S : x <= y

Min(S) == MinOf[S]
Max(S) == CHOOSE x \in S : \A y \in S : x >= y

\* cls._file_extension_mapping, in insertion order
FILE_EXTENSION_MAPPING ==
    <<
      \* .mp1, .mp2, .mp3
      [exts |-> <<<<46, 109, 112, 49>>,
                  <<46, 109, 112, 50>>,
                  <<46, 109, 112, 51>>>>,
       tagclass |-> "_ID3"],
      \* .oga, .ogg, .opus, .spx
      [exts |-> <<<<46, 111, 103, 97>>,
                  <<46, 111, 103, 103>>,
                  <<46, 111, 112, 117, 115>>,
                  <<46, 115, 112, 120>>>>,
       tagclass |-> "_Ogg"],
      \* .wav
      [exts |-> <<<<46, 119, 97, 118>>>>,
       tagclass |-> "_Wave"],
      \* .flac
      [exts |-> <<<<46, 102, 108, 97, 99>>>>,
       tagclass |-> "_Flac"],
      \* .wma
      [exts |-> <<<<46, 119, 109, 97>>>>,
       tagclass |-> "_Wma"],
      \* .m4b, .m4a, .m4r, .m4v, .mp4, .aax, .aaxc
      [exts |-> <<<<46, 109, 52, 98>>,
                  <<46, 109, 52, 97>>,
                  <<46, 109, 52, 114>>,
                  <<46, 109, 52, 118>>,
                  <<46, 109, 112, 52>>,
                  <<46, 97, 97, 120>>,
                  <<46, 97, 97, 120, 99>>>>,
       tagclass |-> "_MP4"],
      \* .aiff, .aifc, .aif, .afc
      [exts |-> <<<<46, 97, 105, 102, 102>>,
                  <<46, 97, 105, 102, 99>>,
                  <<46, 97, 105, 102>>,
                  <<46, 97, 102, 99>>>>,
       tagclass |-> "_Aiff"]
    >>

\* the two regular-expression metacharacters the signatures use; every other
\* element of a signature is a literal byte
CARET == -2     \* '^'
DOT == -1       \* '.'

Dots(n) == [i \in 1..n |-> DOT]

\* cls._magic_bytes_mapping, in insertion order; each key is the bytes of a
\* regular expression, one element per byte of its source
MAGIC_BYTES_MAPPING ==
    <<
      \* b'^ID3'
      [magic |-> <<CARET, 73, 68, 51>>, parser |-> "_ID3"],
      \* b'^\xff\xfb'
      [magic |-> <<CARET, 255, 251>>, parser |-> "_ID3"],
      \* b'^OggS.........................FLAC'
      [magic |-> <<CARET, 79, 103, 103, 83>> \o Dots(25) \o <<70, 76, 65, 67>>,
       parser |-> "_Ogg"],
      \* b'^OggS........................Opus'
      [magic |-> <<CARET, 79, 103, 103, 83>> \o Dots(24) \o <<79, 112, 117, 115>>,
       parser |-> "_Ogg"],
      \* b'^OggS........................Speex'
      [magic |-> <<CARET, 79, 103, 103, 83>> \o Dots(24) \o <<83, 112, 101, 101, 120>>,
       parser |-> "_Ogg"],
      \* b'^OggS.........................vorbis'
      [magic |-> <<CARET, 79, 103, 103, 83>> \o Dots(25)
                    \o <<118, 111, 114, 98, 105, 115>>,
       parser |-> "_Ogg"],
      \* b'^RIFF....WAVE'
      [magic |-> <<CARET, 82, 73, 70, 70>> \o Dots(4) \o <<87, 65, 86, 69>>,
       parser |-> "_Wave"],
      \* b'^fLaC'
      [magic |-> <<CARET, 102, 76, 97, 67>>, parser |-> "_Flac"],
      \* b'^\x30\x26\xB2\x75\x8E\x66\xCF\x11\xA6\xD9\x00\xAA\x00\x62\xCE\x6C'
      [magic |-> <<CARET, 48, 38, 178, 117, 142, 102, 207, 17,
                   166, 217, 0, 170, 0, 98, 206, 108>>,
       parser |-> "_Wma"],
      \* b'....ftypM4A'
      [magic |-> Dots(4) \o <<102, 116, 121, 112, 77, 52, 65>>, parser |-> "_MP4"],
      \* b'....ftypaax'
      [magic |-> Dots(4) \o <<102, 116, 121, 112, 97, 97, 120>>, parser |-> "_MP4"],
      \* b'....ftypaaxc'
      [magic |-> Dots(4) \o <<102, 116, 121, 112, 97, 97, 120, 99>>,
       parser |-> "_MP4"],
      \* b'\xff\xf1'
      [magic |-> <<255, 241>>, parser |-> "_MP4"],
      \* b'^FORM....AIFF'
      [magic |-> <<CARET, 70, 79, 82, 77>> \o Dots(4) \o <<65, 73, 70, 70>>,
       parser |-> "_Aiff"],
      \* b'^FORM....AIFC'
      [magic |-> <<CARET, 70, 79, 82, 77>> \o Dots(4) \o <<65, 73, 70, 67>>,
       parser |-> "_Aiff"]
    >>

\* re.match on a pattern made of '^', '.' and literal bytes, from element i of
\* the pattern and byte pos of the header.  No flag is passed to re.match, so
\* '^' matches at the start only and '.' matches any byte except the line
\* feed, 10.
RECURSIVE ReMatchFrom(_, _, _, _)
ReMatchFrom(magic, i, header, pos) ==
    IF i > Len(magic) THEN TRUE
    ELSE IF magic[i] = CARET THEN pos = 1 /\ ReMatchFrom(magic, i + 1, header, pos)
    ELSE IF pos > Len(header) THEN FALSE
    ELSE IF magic[i] = DOT
         THEN header[pos] # 10 /\ ReMatchFrom(magic, i + 1, header, pos + 1)
    ELSE header[pos] = magic[i] /\ ReMatchFrom(magic, i + 1, header, pos + 1)

\* re.match(magic, header): the match is tried at the start of the header
ReMatch(magic, header) == ReMatchFrom(magic, 1, header, 1)

\* b[m-1:n] for 1 <= m
Sub(b, m, n) == SubSeq(b, m, IF n < Len(b) THEN n ELSE Len(b))

\* fh.read(n) at offset 0
ReadHead(data, n) == SubSeq(data, 1, IF n < Len(data) THEN n ELSE Len(data))

\* TinyTag._get_parser_for_file_handle(fh): the parser of the first signature,
\* in insertion order, that matches the first bytes; "None" when none does
GetParserForFileHandle(data) ==
    LET header == ReadHead(data,
                      Max({Len(MAGIC_BYTES_MAPPING[k].magic) :
                              k \in DOMAIN MAGIC_BYTES_MAPPING}))
        hits == {k \in DOMAIN MAGIC_BYTES_MAPPING :
                    ReMatch(MAGIC_BYTES_MAPPING[k].magic, header)}
    IN  IF hits = {} THEN "None" ELSE MAGIC_BYTES_MAPPING[Min(hits)].parser

\* a file name: None, a str or a bytes value (os.fspath of a path object is
\* one of the two)
NoName == [kind |-> "none", chars |-> <<>>]

\* str.lower() and bytes.lower() on one character: bytes.lower() changes the
\* ASCII letters only, str.lower() also the other capital letters (here, of
\* Latin-1)
LowerChar(kind, c) ==
    IF c >= 65 /\ c <= 90 THEN c + 32
    ELSE IF kind = "str" /\ c >= 192 /\ c <= 222 /\ c # 215 THEN c + 32
    ELSE c

\* bytes.lower()
LowerAsciiOf[b \in Seq(Nat)] == [i \in DOMAIN b |-> LowerChar("bytes", b[i])]

LowerAscii(b) == LowerAsciiOf[b]

Lower(filename) ==
    [i \in DOMAIN filename.chars |-> LowerChar(filename.kind, filename.chars[i])]

\* bytes.endswith(suffix)
EndsWith(b, suffix) ==
    /\ Len(suffix) <= Len(b)
    /\ SubSeq(b, Len(b) - Len(suffix) + 1, Len(b)) = suffix

\* TinyTag._get_parser_for_filename(filename): the class of the first entry
\* with an extension the lower-cased name ends with, "None" when there is
\* none; encoding a str that holds a character above 127 as ASCII raises
GetParserForFilename(filename) ==
    LET lowered == Lower(filename)
    IN  IF filename.kind = "str" /\ \E i \in DOMAIN lowered : lowered[i] > 127
        THEN "UnicodeEncodeError"
        ELSE LET hits == {k \in DOMAIN FILE_EXTENSION_MAPPING :
                            \E j \in DOMAIN FILE_EXTENSION_MAPPING[k].exts :
                                EndsWith(lowered, FILE_EXTENSION_MAPPING[k].exts[j])}
             IN  IF hits = {} THEN "None"
                 ELSE FILE_EXTENSION_MAPPING[Min(hits)].tagclass

\* bool(filename) for a file name
NameGiven(filename) == filename.kind # "none" /\ filename.chars # <<>>

Found(parser, magic_read) == [parser |-> parser, exc |-> "", magic_read |-> magic_read]
Raised(exc, magic_read) == [parser |-> "", exc |-> exc, magic_read |-> magic_read]

\* TinyTag._get_parser_class(filename, filehandle) for an open file handle
\* over data, called on class cls.  magic_read tells whether the first bytes
\* of the stream were read for the signatures.
GetParserClass(cls, filename, data) ==
    IF cls # "TinyTag"
    THEN Found(cls, FALSE)      \* use the class on which `get` was invoked
    ELSE LET by_name == IF NameGiven(filename)
                        THEN GetParserForFilename(filename)
                        ELSE "None"
         IN  IF by_name = "UnicodeEncodeError"
             THEN Raised("UnicodeEncodeError", FALSE)
             ELSE IF by_name # "None"
             THEN Found(by_name, FALSE)
             ELSE \* try determining the file type by magic byte header
                  LET by_magic == GetParserForFileHandle(data)
                  IN  IF by_magic # "None"
                      THEN Found(by_magic, TRUE)
                      ELSE Raised("TinyTagException", TRUE)

(***************************************************************************)
(* The sniffer's inputs.  The file names and the streams are built from    *)
(* the documented selection tables (extension -> decoder, signature ->     *)
(* decoder), not from the tables of the code above.                        *)
(***************************************************************************)
\* extension -> decoder
DocExtensions ==
    {
      <<<<46, 109, 112, 49>>, "_ID3">>,    \* .mp1
      <<<<46, 109, 112, 50>>, "_ID3">>,    \* .mp2
      <<<<46, 109, 112, 51>>, "_ID3">>,    \* .mp3
      <<<<46, 111, 103, 97>>, "_Ogg">>,    \* .oga
      <<<<46, 111, 103, 103>>, "_Ogg">>,    \* .ogg
      <<<<46, 111, 112, 117, 115>>, "_Ogg">>,    \* .opus
      <<<<46, 115, 112, 120>>, "_Ogg">>,    \* .spx
      <<<<46, 119, 97, 118>>, "_Wave">>,    \* .wav
      <<<<46, 102, 108, 97, 99>>, "_Flac">>,    \* .flac
      <<<<46, 119, 109, 97>>, "_Wma">>,    \* .wma
      <<<<46, 109, 52, 98>>, "_MP4">>,    \* .m4b
      <<<<46, 109, 52, 97>>, "_MP4">>,    \* .m4a
      <<<<46, 109, 52, 114>>, "_MP4">>,    \* .m4r
      <<<<46, 109, 52, 118>>, "_MP4">>,    \* .m4v
      <<<<46, 109, 112, 52>>, "_MP4">>,    \* .mp4
      <<<<46, 97, 97, 120>>, "_MP4">>,    \* .aax
      <<<<46, 97, 97, 120, 99>>, "_MP4">>,    \* .aaxc
      <<<<46, 97, 105, 102, 102>>, "_Aiff">>,    \* .aiff
      <<<<46, 97, 105, 102, 99>>, "_Aiff">>,    \* .aifc
      <<<<46, 97, 105, 102>>, "_Aiff">>,    \* .aif
      <<<<46, 97, 102, 99>>, "_Aiff">>    \* .afc
    }

\* magic signature -> decoder, `.' = any byte, with nFLAC, nOpus, nSpeex and
\* nVorbis wildcards between `OggS' and the codec marker
DocSignatures(nFLAC, nOpus, nSpeex, nVorbis) ==
    <<
      [sig |-> <<73, 68, 51>>, decoder |-> "_ID3"],                 \* ID3
      [sig |-> <<255, 251>>, decoder |-> "_ID3"],                   \* \xff\xfb
      [sig |-> <<79, 103, 103, 83>> \o Dots(nFLAC) \o <<70, 76, 65, 67>>,
       decoder |-> "_Ogg"],                                         \* OggS..FLAC
      [sig |-> <<79, 103, 103, 83>> \o Dots(nOpus) \o <<79, 112, 117, 115>>,
       decoder |-> "_Ogg"],                                         \* OggS..Opus
      [sig |-> <<79, 103, 103, 83>> \o Dots(nSpeex) \o <<83, 112, 101, 101, 120>>,
       decoder |-> "_Ogg"],                                         \* OggS..Speex
      [sig |-> <<79, 103, 103, 83>> \o Dots(nVorbis)
                  \o <<118, 111, 114, 98, 105, 115>>,
       decoder |-> "_Ogg"],                                         \* OggS..vorbis
      [sig |-> <<82, 73, 70, 70>> \o Dots(4) \o <<87, 65, 86, 69>>,
       decoder |-> "_Wave"],                                        \* RIFF....WAVE
      [sig |-> <<102, 76, 97, 67>>, decoder |-> "_Flac"],           \* fLaC
      [sig |-> <<48, 38, 178, 117, 142, 102, 207, 17,
                 166, 217, 0, 170, 0, 98, 206, 108>>,
       decoder |-> "_Wma"],                                         \* the ASF GUID
      [sig |-> Dots(4) \o <<102, 116, 121, 112, 77, 52, 65>>,
       decoder |-> "_MP4"],                                         \* ....ftypM4A
      [sig |-> Dots(4) \o <<102, 116, 121, 112, 97, 97, 120>>,
       decoder |-> "_MP4"],                                         \* ....ftypaax
      [sig |-> Dots(4) \o <<102, 116, 121, 112, 97, 97, 120, 99>>,
       decoder |-> "_MP4"],                                         \* ....ftypaaxc
      [sig |-> <<255, 241>>, decoder |-> "_MP4"],                   \* \xff\xf1
      [sig |-> <<70, 79, 82, 77>> \o Dots(4) \o <<65, 73, 70, 70>>,
       decoder |-> "_Aiff"],                                        \* FORM....AIFF
      [sig |-> <<70, 79, 82, 77>> \o Dots(4) \o <<65, 73, 70, 67>>,
       decoder |-> "_Aiff"]                                         \* FORM....AIFC
    >>

\* the signatures as documented: 21 wildcards after `OggS'
SpecSignatures == DocSignatures(21, 21, 21, 21)

\* the signatures with the wildcard counts of Ogg streams: the codec marker
\* follows the 27-byte page header, the one-entry segment table and, for FLAC
\* and vorbis, the packet's type byte
OggSignatures == DocSignatures(25, 24, 24, 25)

TailLen == 2        \* bytes of the stream after the signature

FillBytes == {0, 10, 120}       \* the bytes put at wildcard positions

\* a stream that begins with signature sig, byte f at every wildcard position
\* and after the signature
SigStream(sig, f) ==
    [i \in 1..(Len(sig) + TailLen) |->
        IF i <= Len(sig) /\ sig[i] # DOT THEN sig[i] ELSE f]

HasWildcard(sig) == \E i \in DOMAIN sig : sig[i] = DOT

\* streams that begin with no signature: empty, one byte, zeros, signatures cut
\* short
GarbageStreams ==
    { <<>>,
      <<255>>,
      [i \in 1..40 |-> 0],
      <<73, 68>>,                                       \* ID
      <<79, 103, 103, 83>>,                             \* OggS
      <<82, 73, 70, 70, 0, 0, 0, 0, 87, 65, 86>>,       \* RIFF....WAV
      <<0, 0, 0, 0, 102, 116, 121, 112>> }              \* ....ftyp

\* a stream that begins with two signatures: ID3 and ....ftypM4A
TwoSignatureStream == <<73, 68, 51, 0, 102, 116, 121, 112, 77, 52, 65, 0>>

Streams ==
    {SigStream(SpecSignatures[k].sig, f) : k \in DOMAIN SpecSignatures, f \in FillBytes}
    \cup {SigStream(OggSignatures[k].sig, f) : k \in DOMAIN OggSignatures, f \in FillBytes}
    \cup GarbageStreams
    \cup {TwoSignatureStream}

Stems == {<<97>>, <<233>>}      \* 'a' and 'e' with an acute accent

DocExts == {p[1] : p \in DocExtensions}

\* no extension, .txt, .mp, .MP3
OtherExts == {<<>>, <<46, 116, 120, 116>>, <<46, 109, 112>>, <<46, 77, 80, 51>>}

FileNames ==
    {NoName, [kind |-> "str", chars |-> <<>>]}
    \cup {[kind |-> kd, chars |-> st \o e] :
            kd \in {"str", "bytes"}, st \in Stems, e \in DocExts \cup OtherExts}

\* the extension a file name was built with
ExtOf(filename) ==
    IF ~NameGiven(filename) THEN <<>> ELSE Tail(filename.chars)

\* a str name that holds a character that is not ASCII
NonAsciiStr(filename) ==
    filename.kind = "str" /\ \E i \in DOMAIN filename.chars : filename.chars[i] > 127

(***************************************************************************)
(* The sniffer under arbitrary calls.  The sniffer keeps nothing between    *)
(* calls, so a behaviour is one call of _get_parser_class, or two magic     *)
(* lookups whose results are set side by side.                             *)
(***************************************************************************)
SniffInit ==
    sn = [called |-> FALSE, cls |-> "TinyTag", filename |-> NoName, data |-> <<>>,
          res |-> Raised("", FALSE)]

\* cls._get_parser_class(filename, file_obj), as TinyTag.get calls it
SniffCall ==
    /\ ~sn.called
    /\ \E cls \in {"TinyTag", "_Flac"}, filename \in FileNames, data \in Streams :
        sn' = [called |-> TRUE, cls |-> cls, filename |-> filename, data |-> data,
               res |-> GetParserClass(cls, filename, data)]
    /\ UNCHANGED notSniff

SniffNext == SniffCall

MagicInit ==
    mg = [calls |-> 0, prev |-> <<>>, prev_match |-> {}, cur |-> <<>>, cur_match |-> {}]

\* the signatures that re.match finds at the start of a stream, by position
\* in the mapping
Matching(data) ==
    LET header == ReadHead(data,
                      Max({Len(MAGIC_BYTES_MAPPING[k].magic) :
                              k \in DOMAIN MAGIC_BYTES_MAPPING}))
    IN  {k \in DOMAIN MAGIC_BYTES_MAPPING :
            ReMatch(MAGIC_BYTES_MAPPING[k].magic, header)}

\* cls._get_parser_for_file_handle(fh) on one more stream
MagicLookup ==
    /\ mg.calls < 2
    /\ \E data \in Streams :
        mg' = [calls |-> mg.calls + 1,
               prev |-> mg.cur, prev_match |-> mg.cur_match,
               cur |-> data, cur_match |-> Matching(data)]
    /\ UNCHANGED notMagic

MagicNext == MagicLookup

(***************************************************************************)
(* Text of tags: _unpad, _ID3._decode_string, int(), str.split             *)
(***************************************************************************)
\* TinyTag._unpad(s): s.strip('\x00')
RECURSIVE Unpad(_)
Unpad(s) ==
    IF s = <<>> THEN s
    ELSE IF Head(s) = NUL THEN Unpad(Tail(s))
    ELSE IF s[Len(s)] = NUL THEN Unpad(SubSeq(s, 1, Len(s) - 1))
    ELSE s

\* bytes.isalpha(): not empty and ASCII letters only
IsAlpha(b) ==
    /\ b # <<>>
    /\ \A i \in DOMAIN b : (b[i] >= 65 /\ b[i] <= 90) \/ (b[i] >= 97 /\ b[i] <= 122)

\* _ID3._decode_string(bytestr, language) of a content whose first byte is 0
\* (ISO-8859-1), 3 (UTF-8, here of ASCII bytes) or no encoding marker, with no
\* default encoding set: each byte is the code point of one character
DecodeString(bytestr, language) ==
    LET first_byte == Sub(bytestr, 1, 1)
        b1 == IF first_byte \in {<<0>>, <<3>>} THEN Tail(bytestr) ELSE bytestr
        b2 == IF language /\ IsAlpha(Sub(b1, 1, 3))
              THEN SubSeq(b1, 4, Len(b1))       \* remove language
              ELSE b1
    IN  Unpad(b2)

IsDigits(x) == x # <<>> /\ \A i \in DOMAIN x : x[i] >= 48 /\ x[i] <= 57

DigitsValueOf[x \in Seq(Nat)] ==
    IF x = <<>> THEN 0 ELSE DigitsValueOf[SubSeq(x, 1, Len(x) - 1)] * 10 + (x[Len(x)] - 48)

DigitsValue(x) == DigitsValueOf[x]

\* int(value) of a str of decimal digits; any other str here raises ValueError
IntOf(x) ==
    IF IsDigits(x) THEN [ok |-> TRUE, n |-> DigitsValue(x)] ELSE [ok |-> FALSE, n |-> 0]

\* the index of the first c in x, 0 when x holds none
IndexIn[x \in Seq(Nat), c \in Nat] ==
    IF \E i \in DOMAIN x : x[i] = c
    THEN Min({i \in DOMAIN x : x[i] = c})
    ELSE 0

IndexOf(x, c) == IndexIn[x, c]

\* value.split('/')[:2] of a value that holds a '/'
SplitSlash(value) ==
    LET i == IndexOf(value, 47)
        after == SubSeq(value, i + 1, Len(value))
        j == IndexOf(after, 47)
    IN  <<SubSeq(value, 1, i - 1),
          IF j = 0 THEN after ELSE SubSeq(after, 1, j - 1)>>

\* the branch of _parse_frame and of _parse_vorbis_comment for the fields
\* track and disc: the total after a '/' is written first; a ValueError of
\* either int() ends the branch and keeps what was written before it
SetNumberField(tg, fieldname, value) ==
    LET slash == IndexOf(value, 47) # 0
        parts == IF slash THEN SplitSlash(value) ELSE <<value, <<>>>>
        total == IntOf(parts[2])
        number == IntOf(parts[1])
        total_name == IF fieldname = "track" THEN "track_total" ELSE "disc_total"
    IN  IF slash /\ ~total.ok THEN tg
        ELSE LET t1 == IF slash THEN SetField(tg, total_name, PyInt(total.n)) ELSE tg
             IN  IF number.ok THEN SetField(t1, fieldname, PyInt(number.n)) ELSE t1

(***************************************************************************)
(* ID3: _ID3._parse_frame, _ID3._parse_id3v2, _ID3._parse_id3v1,           *)
(* _ID3._parse_tag                                                         *)
(***************************************************************************)
\* len(_ID3.ID3V1_GENRES)
ID3V1_GENRES_LEN == 189

\* _ID3.ID3V1_GENRES[genre_id]; entry 133 is the empty string.  The names of
\* the entries other than 0, 1 and 133 are stood for by '#' and the index.
ID3V1_GENRES(genre_id) ==
    CASE genre_id = 0 -> <<66, 108, 117, 101, 115>>                     \* Blues
      [] genre_id = 1 -> <<67, 108, 97, 115, 115, 105, 99, 32, 82, 111, 99, 107>>
      [] genre_id = 133 -> <<>>
      [] OTHER -> <<35, genre_id>>

\* _ID3.FRAME_ID_TO_FIELD.get(frame_id), "" for None: the four-letter ids of
\* the fields of the model, and two three-letter ids of ID3v2.2
FRAME_ID_TO_FIELD(frame_id) ==
    CASE frame_id = "COMM" -> "comment"
      [] frame_id = "TRCK" -> "track"
      [] frame_id = "TYER" -> "year"
      [] frame_id = "TALB" -> "album"
      [] frame_id = "TPE1" -> "artist"
      [] frame_id = "TIT2" -> "title"
      [] frame_id = "TCON" -> "genre"
      [] frame_id = "TPOS" -> "disc"
      [] frame_id = "TCOM" -> "extra.composer"
      [] frame_id = "TT2" -> "title"
      [] frame_id = "TP1" -> "artist"
      [] OTHER -> ""

\* 'extra.' + custom_field_name.lower() for the custom field names of the model
CustomFieldName(name) ==
    CASE LowerAscii(name) = <<99, 111, 109, 112, 111, 115, 101, 114>> -> "extra.composer"

\* _ID3.__parse_custom_field(content): content.partition('\x00'); a content
\* 'name\x00value' with a name is written as the extra field of that name
IsCustomField(content) == IndexOf(content, NUL) > 1

ParseCustomField(tg, content) ==
    LET i == IndexOf(content, NUL)
    IN  IF IsCustomField(content)
        THEN SetField(tg, CustomFieldName(SubSeq(content, 1, i - 1)),
                      PyStr(SubSeq(content, i + 1, Len(content))))
        ELSE tg

\* the genre branch of _parse_frame: a digit string, or one in parentheses,
\* below the length of ID3V1_GENRES is replaced by the genre of that index
GenreValue(value) ==
    LET inner == SubSeq(value, 2, Len(value) - 1)
        genre_id == IF IsDigits(value) THEN DigitsValue(value)
                    ELSE IF Sub(value, 1, 1) = <<40>> /\ value[Len(value)] = 41
                            /\ IsDigits(inner)
                         THEN DigitsValue(inner)
                    ELSE 255
    IN  IF genre_id < ID3V1_GENRES_LEN THEN ID3V1_GENRES(genre_id) ELSE value

\* _ID3._parse_frame from `if frame_size > 0` on, for a frame with a mapped
\* id (the frames of the model have one) and content of frame_size bytes
\* ParseFrame with a slip: the frame is written whether the tags are asked
\* for or not
ParseFrameUnguarded(tg, frame, parse_tags) ==
    LET fieldname == FRAME_ID_TO_FIELD(frame.frame_id)
        language == fieldname \in {"comment", "extra.lyrics"}
        value == DecodeString(frame.content, language)
    IN  IF frame.content = <<>> \/ fieldname = "" THEN tg
        ELSE IF fieldname = "comment"
             THEN IF IsCustomField(value) THEN ParseCustomField(tg, value)
                  ELSE SetField(tg, fieldname, PyStr(value))
        ELSE IF fieldname \in {"track", "disc"}
             THEN SetNumberField(tg, fieldname, value)
        ELSE IF fieldname = "genre"
             THEN SetField(tg, fieldname, PyStr(GenreValue(value)))
        ELSE SetField(tg, fieldname, PyStr(value))

ParseFrame(tg, frame, parse_tags) ==
    LET fieldname == FRAME_ID_TO_FIELD(frame.frame_id)
        language == fieldname \in {"comment", "extra.lyrics"}
        value == DecodeString(frame.content, language)
    IN  IF frame.content = <<>> \/ fieldname = "" \/ ~parse_tags THEN tg
        ELSE IF fieldname = "comment"
             THEN IF IsCustomField(value) THEN ParseCustomField(tg, value)
                  ELSE SetField(tg, fieldname, PyStr(value))
        ELSE IF fieldname \in {"track", "disc"}
             THEN SetNumberField(tg, fieldname, value)
        ELSE IF fieldname = "genre"
             THEN SetField(tg, fieldname, PyStr(GenreValue(value)))
        ELSE SetField(tg, fieldname, PyStr(value))

\* _ID3._parse_id3v2: the frames of the tag in order
RECURSIVE ParseId3v2(_, _, _)
ParseId3v2(tg, frames, parse_tags) ==
    IF frames = <<>> \/ frames[1].content = <<>>     \* frame_size == 0: break
    THEN tg
    ELSE ParseId3v2(ParseFrame(tg, frames[1], parse_tags), Tail(frames), parse_tags)

(***************************************************************************)
(* Facade: TinyTag.get and TinyTag._load over the seven decoders.          *)
(*                                                                         *)
(* A stream is its first bytes, on which the decoders' container checks    *)
(* run, and what reading on raises: nothing, struct.error where a pass     *)
(* unpacks a field the stream ends in, or the page check of a later Ogg    *)
(* page.  A stream carries one title and the description of its audio.     *)
(***************************************************************************)
\* struct.unpack('4sI4s', fh.read(12)); riff != b'RIFF' or fformat != b'WAVE'
WaveCheck(data) ==
    LET h == ReadHead(data, 12)
    IN  IF Len(h) # 12 THEN "struct.error"
        ELSE IF Sub(h, 1, 4) # <<82, 73, 70, 70>> \/ Sub(h, 9, 12) # <<87, 65, 86, 69>>
             THEN "TinyTagException"
        ELSE ""

\* struct.unpack('>4sI4s', fh.read(12)); chunk_id != b'FORM' or form not in
\* (b'AIFC', b'AIFF')
AiffCheck(data) ==
    LET h == ReadHead(data, 12)
    IN  IF Len(h) # 12 THEN "struct.error"
        ELSE IF Sub(h, 1, 4) # <<70, 79, 82, 77>>
                \/ Sub(h, 9, 12) \notin {<<65, 73, 70, 67>>, <<65, 73, 70, 70>>}
             THEN "TinyTagException"
        ELSE ""

\* _ID3._calc_size(bytestr, 7) of four bytes: reduce((accu << 7) + elem)
CalcSize7(b) == (b[1] * 2097152) + (b[2] * 16384) + (b[3] * 128) + b[4]

\* the first lines of _Flac._parse_tag: an ID3v2 tag at the start is read
\* over (its header needs 10 bytes), then header[:4] != b'fLaC'
FlacCheck(data) ==
    LET header == ReadHead(data, 4)
    IN  IF Sub(header, 1, 3) = <<73, 68, 51>>
        THEN IF Len(data) < 10 THEN "struct.error"
             ELSE LET end_pos == 10 + CalcSize7(Sub(data, 7, 10))
                  IN  IF Sub(data, end_pos + 1, end_pos + 4) # <<102, 76, 97, 67>>
                      THEN "TinyTagException" ELSE ""
        ELSE IF Sub(header, 1, 4) # <<102, 76, 97, 67>> THEN "TinyTagException"
        ELSE ""

ASF_GUID == <<48, 38, 178, 117, 142, 102, 207, 17, 166, 217, 0, 170, 0, 98, 206, 108>>

\* header = fh.read(30); header[:16] != GUID or header[-1:] != b'\x02'
WmaCheck(data) ==
    LET header == ReadHead(data, 30)
    IN  IF Sub(header, 1, 16) # ASF_GUID
           \/ header = <<>>
           \/ header[Len(header)] # 2
        THEN "TinyTagException"
        ELSE ""

\* _Ogg._parse_pages on the first page: no page at all when fewer than 27
\* bytes are read, else oggs != b'OggS' or version != 0
OggPages(data) == Len(ReadHead(data, 27)) = 27

OggCheck(data) ==
    LET header_data == ReadHead(data, 27)
    IN  IF OggPages(data)
           /\ (Sub(header_data, 1, 4) # <<79, 103, 103, 83>> \/ header_data[5] # 0)
        THEN "TinyTagException"
        ELSE ""

\* _ID3._parse_id3v2_header: struct.unpack('3sBBB4B', fh.read(10))
Id3Check(data) == IF Len(ReadHead(data, 10)) # 10 THEN "struct.error" ELSE ""

\* what the first lines of a decoder's container pass raise on a stream: ""
\* when they raise nothing
ContainerCheck(decoder, data) ==
    CASE decoder = "_Wave" -> WaveCheck(data)
      [] decoder = "_Aiff" -> AiffCheck(data)
      [] decoder = "_Flac" -> FlacCheck(data)
      [] decoder = "_Wma" -> WmaCheck(data)
      [] decoder = "_Ogg" -> OggCheck(data)
      [] decoder = "_ID3" -> Id3Check(data)
      [] OTHER -> ""                            \* _MP4: no check

\* what reading the rest of the stream raises in pass p of a decoder
RestRaises(decoder, st, p) ==
    IF st.rest.pass # p THEN ""
    ELSE IF st.rest.what = "truncated" THEN "struct.error"
    ELSE IF st.rest.what = "bad_page" /\ decoder = "_Ogg" THEN "TinyTagException"
    ELSE ""

\* TinyTag.__init__ and the assignments of get: the record a parse starts from
NewRecord(filesize) ==
    [title |-> PyNone, duration |-> FALSE, samplerate |-> FALSE, filesize |-> filesize,
     tags_parsed |-> FALSE]

Passed(t) == [exc |-> "", fatal |-> FALSE, tag |-> t]
Failed(exc, fatal, t) == [exc |-> exc, fatal |-> fatal, tag |-> t]

\* decoder._parse_tag(fh) with the flags _load has set.  fatal: the exception
\* is the decoder's own "Invalid ... file".
ParseTag(decoder, st, t, parse_tags, parse_duration) ==
    LET chk == ContainerCheck(decoder, st.data)
        rest == RestRaises(decoder, st, "tags")
        t1 == [t EXCEPT !.title = IF parse_tags THEN PyStr(<<65>>) ELSE @]
        t2 == [t1 EXCEPT
                 !.duration = IF decoder \in {"_Wave", "_Wma", "_Aiff"}
                                 \/ (decoder = "_Flac" /\ parse_duration)
                              THEN TRUE ELSE @,
                 !.samplerate = IF decoder = "_Ogg" /\ parse_duration /\ OggPages(st.data)
                                THEN TRUE ELSE @,
                 !.tags_parsed = IF decoder \in {"_Ogg", "_Wave", "_Flac", "_Wma", "_Aiff"}
                                 THEN TRUE ELSE @]
    IN  IF chk # "" THEN Failed(chk, chk = "TinyTagException", t)
        ELSE IF rest # "" THEN Failed(rest, rest = "TinyTagException", t1)
        ELSE Passed(t2)

\* decoder._determine_duration(fh)
DetermineDuration(decoder, st, t, parse_tags, parse_duration) ==
    LET first == IF decoder \in {"_Ogg", "_Wave", "_Flac", "_Wma", "_Aiff"}
                    /\ ~t.tags_parsed
                 THEN ParseTag(decoder, st, t, parse_tags, parse_duration)
                 ELSE Passed(t)
        rest == RestRaises(decoder, st, "duration")
        measured == Passed([first.tag EXCEPT !.duration = TRUE])
    IN  IF first.exc # "" THEN first
        ELSE IF decoder = "_Ogg"
             THEN IF first.tag.duration \/ ~first.tag.samplerate
                  THEN first        \* either ogg flac or invalid file
                  ELSE IF rest # "" THEN Failed(rest, rest = "TinyTagException", first.tag)
                  ELSE measured
        ELSE IF decoder = "_ID3"
             THEN IF ~parse_tags /\ Id3Check(st.data) # ""
                  THEN Failed(Id3Check(st.data), FALSE, first.tag)
                  ELSE IF rest # "" THEN Failed(rest, FALSE, first.tag)
                  ELSE measured
        ELSE IF decoder = "_MP4"
             THEN IF rest # "" THEN Failed(rest, FALSE, first.tag) ELSE measured
        ELSE first

(***************************************************************************)
(* One call of TinyTag.get                                                 *)
(***************************************************************************)
Zeros(n) == [i \in 1..n |-> 0]

\* first bytes that pass, and first bytes that fail, the check of each decoder
GetHeads ==
    { <<>>,                                                         \* an empty file
      <<1, 2, 3>>,
      <<82, 73, 70, 70>> \o Zeros(4) \o <<87, 65, 86, 69>>,         \* RIFF....WAVE
      <<82, 73, 70, 88>> \o Zeros(4) \o <<87, 65, 86, 69>>,         \* RIFX....WAVE
      <<82, 73, 70, 70>> \o Zeros(4) \o <<87, 65, 86, 88>>,         \* RIFF....WAVX
      <<70, 79, 82, 77>> \o Zeros(4) \o <<65, 73, 70, 67>>,         \* FORM....AIFC
      <<70, 79, 82, 77>> \o Zeros(4) \o <<65, 73, 70, 88>>,         \* FORM....AIFX
      <<102, 76, 97, 67>> \o Zeros(8),                              \* fLaC
      <<73, 68, 51, 3>> \o Zeros(6) \o <<102, 76, 97, 67>>,         \* ID3, fLaC
      <<73, 68, 51, 3>> \o Zeros(6) \o <<102, 76, 97, 88>>,         \* ID3, fLaX
      ASF_GUID \o Zeros(13) \o <<2>>,
      ASF_GUID \o Zeros(13) \o <<1>>,                               \* version 1
      <<79, 103, 103, 83>> \o Zeros(25) \o <<118, 111, 114, 98, 105, 115>>,
      <<79, 103, 103, 83, 1>> \o Zeros(24) \o <<118, 111, 114, 98, 105, 115>>,
      <<79, 103, 103, 88>> \o Zeros(25),                            \* OggX
      Zeros(4) \o <<102, 116, 121, 112, 77, 52, 65>> }              \* ....ftypM4A

GetRests ==
    {[pass |-> "", what |-> "ok"]}
    \cup [pass : {"tags", "duration"}, what : {"truncated", "bad_page"}]

\* a stream that cannot seek stands for all of them: nothing of it is read
GetStreams ==
    [data : GetHeads, rest : GetRests, seekable : {TRUE}]
    \cup {[data |-> <<1, 2, 3>>, rest |-> [pass |-> "", what |-> "ok"], seekable |-> FALSE]}

Decoders == {"_ID3", "_Ogg", "_Wave", "_Flac", "_Wma", "_MP4", "_Aiff"}

Name(chars) == [kind |-> "str", chars |-> chars]

\* the class get is invoked on, and the file name
GetCallers ==
    [cls : {"TinyTag"},
     filename : {NoName,
                 Name(<<97, 46, 109, 112, 51>>),                \* a.mp3
                 Name(<<97, 46, 111, 103, 103>>),               \* a.ogg
                 Name(<<97, 46, 119, 97, 118>>),                \* a.wav
                 Name(<<97, 46, 102, 108, 97, 99>>),            \* a.flac
                 Name(<<97, 46, 119, 109, 97>>),                \* a.wma
                 Name(<<97, 46, 109, 52, 97>>),                 \* a.m4a
                 Name(<<97, 46, 97, 105, 102, 102>>),           \* a.aiff
                 Name(<<97, 46, 116, 120, 116>>)}]              \* a.txt
    \cup [cls : {"_Ogg"}, filename : {NoName}]

GetInit ==
    g = [pc |-> "idle", cls |-> "TinyTag", filename |-> NoName, given |-> FALSE,
         st |-> [data |-> <<>>, rest |-> [pass |-> "", what |-> "ok"], seekable |-> TRUE],
         tags |-> FALSE, duration |-> FALSE,
         should_close_file |-> FALSE, opened |-> FALSE, closed |-> FALSE,
         parser |-> "", tag |-> NewRecord(0),
         tag_pass |-> FALSE, fatal |-> FALSE, failed_in |-> "",
         out |-> [kind |-> "", exc |-> "", cause |-> "", tag |-> NewRecord(0)]]

Returned(t) == [kind |-> "return", exc |-> "", cause |-> "", tag |-> t]
Raises(exc, cause) == [kind |-> "raise", exc |-> exc, cause |-> cause, tag |-> NewRecord(0)]

\* Leave with a slip: no finally clause, the stream is left open
LeaveWithoutFinally(gg, out) == [gg EXCEPT !.pc = "done", !.out = out]

\* get is left from inside its try statement: the finally clause closes the
\* stream when should_close_file
Leave(gg, out) ==
    [gg EXCEPT !.pc = "done", !.out = out,
               !.closed = IF gg.should_close_file THEN TRUE ELSE @]

\* get up to its try statement: file_obj is the caller's stream when given;
\* exists tells whether open(filename, 'rb') finds the file
GetCall ==
    /\ g.pc = "idle"
    /\ \E c \in GetCallers, given \in BOOLEAN, st \in GetStreams,
          tags \in BOOLEAN, duration \in BOOLEAN :
        LET opens == NameGiven(c.filename) /\ ~given
            call == [g EXCEPT !.cls = c.cls, !.filename = c.filename, !.given = given,
                              !.st = st, !.tags = tags, !.duration = duration,
                              !.should_close_file = ~given]
        IN  \E exists \in IF opens THEN BOOLEAN ELSE {TRUE} :
                g' = IF opens /\ ~exists
                     THEN [call EXCEPT !.pc = "done",
                                       !.out = Raises("FileNotFoundError", "")]
                     ELSE IF ~opens /\ ~given
                     THEN [call EXCEPT !.pc = "done",
                                       !.out = Raises("TinyTagException", "")]
                     ELSE [call EXCEPT !.pc = "try", !.opened = opens]
    /\ UNCHANGED notGet

\* file_obj.seek(0, os.SEEK_END); filesize = file_obj.tell(); file_obj.seek(0)
GetMeasure ==
    /\ g.pc = "try"
    /\ g' = IF ~g.st.seekable
            THEN Leave(g, Raises("OSError", ""))
            ELSE [g EXCEPT !.pc = "sniff", !.tag = NewRecord(Len(g.st.data))]
    /\ UNCHANGED notGet

\* parser_class = cls._get_parser_class(filename, file_obj); tag = parser_class()
\* and its assignments; a stream of size 0 is returned unparsed
GetSniff ==
    /\ g.pc = "sniff"
    /\ LET res == GetParserClass(g.cls, g.filename, g.st.data)
       IN  g' = IF res.exc # ""
                THEN Leave(g, Raises(res.exc, ""))
                ELSE IF g.tag.filesize > 0
                THEN [g EXCEPT !.pc = "load_tags", !.parser = res.parser]
                ELSE Leave([g EXCEPT !.parser = res.parser], Returned(g.tag))
    /\ UNCHANGED notGet

\* LoadTags with a slip: an exception of the tag pass is swallowed and the
\* parse goes on
LoadTagsSwallow ==
    /\ g.pc = "load_tags"
    /\ LET r == IF g.tags
                THEN ParseTag(g.parser, g.st, g.tag, g.tags, g.duration)
                ELSE Passed(g.tag)
       IN  g' = [g EXCEPT !.pc = "load_duration", !.tag = r.tag,
                          !.tag_pass = g.tags /\ r.exc = ""]
    /\ UNCHANGED notGet

\* _load: if tags: self._parse_tag(self._filehandler); an exception is caught
\* in get and raised again as TinyTagException('Failed to parse file: ...')
LoadTags ==
    /\ g.pc = "load_tags"
    /\ LET r == IF g.tags
                THEN ParseTag(g.parser, g.st, g.tag, g.tags, g.duration)
                ELSE Passed(g.tag)
       IN  g' = IF r.exc # ""
                THEN Leave([g EXCEPT !.tag = r.tag, !.fatal = r.fatal, !.failed_in = "tags"],
                           Raises("TinyTagException", r.exc))
                ELSE [g EXCEPT !.pc = "load_duration", !.tag = r.tag, !.tag_pass = g.tags]
    /\ UNCHANGED notGet

\* LoadDuration with a slip: an exception of the duration pass is caught
\* apart and the record is returned as the tag pass left it
LoadDurationKeepsTags ==
    /\ g.pc = "load_duration"
    /\ LET r == IF g.duration
                THEN DetermineDuration(g.parser, g.st, g.tag, g.tags, g.duration)
                ELSE Passed(g.tag)
       IN  g' = IF r.exc # ""
                THEN Leave([g EXCEPT !.fatal = r.fatal, !.failed_in = "duration"],
                           Returned(g.tag))
                ELSE Leave([g EXCEPT !.tag = r.tag], Returned(r.tag))
    /\ UNCHANGED notGet

\* _load: if duration: self._determine_duration(self._filehandler); then get
\* returns the record
LoadDuration ==
    /\ g.pc = "load_duration"
    /\ LET r == IF g.duration
                THEN DetermineDuration(g.parser, g.st, g.tag, g.tags, g.duration)
                ELSE Passed(g.tag)
       IN  g' = IF r.exc # ""
                THEN Leave([g EXCEPT !.tag = r.tag, !.fatal = r.fatal,
                                     !.failed_in = "duration"],
                           Raises("TinyTagException", r.exc))
                ELSE Leave([g EXCEPT !.tag = r.tag], Returned(r.tag))
    /\ UNCHANGED notGet

GetNext == GetCall \/ GetMeasure \/ GetSniff \/ LoadTags \/ LoadDuration

(***************************************************************************)
(* The tag pass of the ID3 decoder and of the FLAC decoder                 *)
(***************************************************************************)
\* a and b are bytes values of two bytes: a < b
Less2(a, b) == a[1] < b[1] \/ (a[1] = b[1] /\ a[2] < b[2])

\* ParseId3v1 with a slip: the fields are written whether set or not
ParseId3v1Unguarded(tg, block) ==
    IF Sub(block, 1, 3) # <<84, 65, 71>> THEN tg
    ELSE LET fields == SubSeq(block, 4, Len(block))
             comment == Sub(fields, 95, 124)
             has_track == Less2(<<0, 0>>, Sub(comment, 29, 30))
                             /\ Less2(Sub(comment, 29, 30), <<1, 0>>)
             t1 == SetField(tg, "title", PyStr(Unpad(Sub(fields, 1, 30))))
             t2 == SetField(t1, "artist", PyStr(Unpad(Sub(fields, 31, 60))))
             t3 == SetField(t2, "album", PyStr(Unpad(Sub(fields, 61, 90))))
             t4 == SetField(t3, "year", PyStr(Unpad(Sub(fields, 91, 94))))
             t5 == IF has_track THEN SetField(t4, "track", PyInt(comment[30])) ELSE t4
             t6 == SetField(t5, "comment",
                            PyStr(Unpad(IF has_track THEN Sub(comment, 1, 28) ELSE comment)))
         IN  IF fields[125] < ID3V1_GENRES_LEN
             THEN SetField(t6, "genre", PyStr(ID3V1_GENRES(fields[125])))
             ELSE t6

\* _ID3._parse_id3v1 on the last 128 bytes of the file; asciidecode decodes
\* latin1, each byte the code point of one character, and unpads
ParseId3v1(tg, block) ==
    IF Sub(block, 1, 3) # <<84, 65, 71>> THEN tg     \* not an ID3 v1 tag
    ELSE LET fields == SubSeq(block, 4, Len(block))
             comment == Sub(fields, 95, 124)
             has_track == Less2(<<0, 0>>, Sub(comment, 29, 30))
                             /\ Less2(Sub(comment, 29, 30), <<1, 0>>)
             t1 == IF ~Truthy(GetField(tg, "title"))
                   THEN SetField(tg, "title", PyStr(Unpad(Sub(fields, 1, 30))))
                   ELSE tg
             t2 == IF ~Truthy(GetField(t1, "artist"))
                   THEN SetField(t1, "artist", PyStr(Unpad(Sub(fields, 31, 60))))
                   ELSE t1
             t3 == IF ~Truthy(GetField(t2, "album"))
                   THEN SetField(t2, "album", PyStr(Unpad(Sub(fields, 61, 90))))
                   ELSE t2
             t4 == IF ~Truthy(GetField(t3, "year"))
                   THEN SetField(t3, "year", PyStr(Unpad(Sub(fields, 91, 94))))
                   ELSE t3
             t5 == IF has_track /\ GetField(t4, "track") = PyNone
                   THEN SetField(t4, "track", PyInt(comment[30]))
                   ELSE t4
             t6 == IF ~Truthy(GetField(t5, "comment"))
                   THEN SetField(t5, "comment",
                            PyStr(Unpad(IF has_track THEN Sub(comment, 1, 28) ELSE comment)))
                   ELSE t5
         IN  IF ~Truthy(GetField(t6, "genre")) /\ fields[125] < ID3V1_GENRES_LEN
             THEN SetField(t6, "genre", PyStr(ID3V1_GENRES(fields[125])))
             ELSE t6

\* the keys of _Ogg._parse_vorbis_comment's comment_type_to_attr_mapping that
\* the model uses, "" for a key it does not
VorbisField(key_lowercase) ==
    CASE key_lowercase = "title" -> "title"
      [] key_lowercase = "artist" -> "artist"
      [] key_lowercase = "tracknumber" -> "track"
      [] key_lowercase = "tracktotal" -> "track_total"
      [] key_lowercase = "discnumber" -> "disc"
      [] key_lowercase = "composer" -> "extra.composer"
      [] OTHER -> ""

\* _Ogg._parse_vorbis_comment: the key=value elements in order
CommentPairs == [key : STRING, value : Seq(Nat)]

ParseVorbisCommentOf[tg \in TagRecords, comments \in Seq(CommentPairs)] ==
    IF comments = <<>> THEN tg
    ELSE LET fieldname == VorbisField(comments[1].key)
             value == comments[1].value
             next == IF fieldname = "" THEN tg
                     ELSE IF fieldname \in {"track", "disc"}
                          THEN SetNumberField(tg, fieldname, value)
                     ELSE IF fieldname \in {"track_total", "disc_total"}
                          THEN IF IntOf(value).ok
                               THEN SetField(tg, fieldname, PyInt(IntOf(value).n))
                               ELSE tg
                     ELSE SetField(tg, fieldname, PyStr(value))
         IN  ParseVorbisCommentOf[next, Tail(comments)]

ParseVorbisComment(tg, comments) == ParseVorbisCommentOf[tg, comments]

\* one round of the first loop of TinyTag._update: if new_value:
\* self._set_field(key, new_value)
UpdateKey(tg, other, i) ==
    LET new_value == other.attr[UpdateKeys[i]]
    IN  IF Truthy(new_value) THEN SetField(tg, UpdateKeys[i], new_value) ELSE tg

UpdateKeysFromOf[tg \in TagRecords, other \in TagRecords, i \in Nat] ==
    IF i > Len(UpdateKeys) THEN tg
    ELSE UpdateKeysFromOf[UpdateKey(tg, other, i), other, i + 1]

UpdateKeysFrom(tg, other, i) == UpdateKeysFromOf[tg, other, i]

\* TinyTag._update(other): the keys, then the items of other.extra (the
\* model's extra holds one key; PyNone stands for a key that is absent)
Update(tg, other) ==
    LET t1 == UpdateKeysFrom(tg, other, 1)
    IN  IF other.extra["composer"] # PyNone
        THEN SetField(t1, "extra.composer", other.extra["composer"])
        ELSE t1

MaxFrames == 2      \* most frames of an ID3v2 tag, most elements of a comment block

SeqsUpTo(S, n) == UNION {[1..k -> S] : k \in 0..n}

Latin1(text) == <<0>> \o text       \* frame content: encoding marker, text

\* ID3v2 frames: TIT2 'A', TIT2 'B', TRCK '1', TRCK '0', TRCK '2/2', TPOS '1',
\* TCON '1', TCOM 'A', COMM 'eng' '' 'A'
Frames ==
    { [frame_id |-> "TIT2", content |-> Latin1(<<65>>)],
      [frame_id |-> "TIT2", content |-> Latin1(<<66>>)],
      [frame_id |-> "TRCK", content |-> Latin1(<<49>>)],
      [frame_id |-> "TRCK", content |-> Latin1(<<48>>)],
      [frame_id |-> "TRCK", content |-> Latin1(<<50, 47, 50>>)],
      [frame_id |-> "TPOS", content |-> Latin1(<<49>>)],
      [frame_id |-> "TCON", content |-> Latin1(<<49>>)],
      [frame_id |-> "TCOM", content |-> Latin1(<<65>>)],
      [frame_id |-> "COMM", content |-> Latin1(<<101, 110, 103, 0, 65>>)] }

\* Vorbis comments: title=A, title=C, tracknumber=1, tracknumber=3/3,
\* discnumber=2, composer=C
Comments ==
    { [key |-> "title", value |-> <<65>>],
      [key |-> "title", value |-> <<67>>],
      [key |-> "tracknumber", value |-> <<49>>],
      [key |-> "tracknumber", value |-> <<51, 47, 51>>],
      [key |-> "discnumber", value |-> <<50>>],
      [key |-> "composer", value |-> <<67>>] }

Pad(x, n) == x \o Zeros(n - Len(x))

\* the 128 bytes of an ID3v1 tag: TAG, title, artist, album, year, comment,
\* genre
V1Block(title, artist, album, year, comment, genre) ==
    <<84, 65, 71>> \o Pad(title, 30) \o Pad(artist, 30) \o Pad(album, 30) \o Pad(year, 4)
        \o comment \o <<genre>>

\* the last 128 bytes of a file: ID3v1 tags that set every field or leave
\* fields out, with and without a track number; bytes that are no tag
Tails ==
    {V1Block(t, t, a, y, c, gn) :
        t \in {<<>>, <<66>>}, a \in {<<>>, <<66>>}, y \in {<<>>, <<49, 57, 57, 57>>},
        c \in {Zeros(30), Pad(<<66>>, 30), Pad(<<66>>, 28) \o <<0, 7>>},
        gn \in {0, 255}}
    \cup {Zeros(128)}

Id3Init ==
    i3 = [called |-> FALSE, frames |-> <<>>, filesize |-> 0, tail |-> <<>>,
          v2 |-> NewTag, tag |-> NewTag]

\* _ID3._parse_tag on a file of the given size with an ID3v2 tag of frames
\* and the given last 128 bytes
Id3ParseTag ==
    /\ ~i3.called
    /\ \E frames \in SeqsUpTo(Frames, MaxFrames), filesize \in {128, 129}, tail \in Tails :
        LET v2 == ParseId3v2(NewTag, frames, TRUE)
        IN  i3' = [called |-> TRUE, frames |-> frames, filesize |-> filesize, tail |-> tail,
                   v2 |-> v2,
                   tag |-> IF filesize > 128 THEN ParseId3v1(v2, tail) ELSE v2]
    /\ UNCHANGED notId3

Id3Next == Id3ParseTag

FlacInit ==
    fl = [called |-> FALSE, has_id3 |-> FALSE, frames |-> <<>>, comments |-> <<>>,
          parse_tags |-> FALSE, id3 |-> NewTag, oggtag |-> NewTag, tag |-> NewTag]

\* _Flac._parse_tag on a stream of an optional ID3v2 tag, fLaC and one
\* VORBIS_COMMENT block: the ID3v2 tag is parsed into id3, the comment block
\* into oggtag; self._update(oggtag), and after the blocks self._update(id3)
FlacParseTag ==
    /\ ~fl.called
    /\ \E has_id3 \in BOOLEAN, frames \in SeqsUpTo(Frames, MaxFrames),
          comments \in SeqsUpTo(Comments, MaxFrames), parse_tags \in BOOLEAN :
        /\ ~has_id3 => frames = <<>>
        /\ LET id3 == IF has_id3 THEN ParseId3v2(NewTag, frames, parse_tags) ELSE NewTag
               oggtag == IF parse_tags THEN ParseVorbisComment(NewTag, comments) ELSE NewTag
               t1 == IF parse_tags THEN Update(NewTag, oggtag) ELSE NewTag
               t2 == IF has_id3 THEN Update(t1, id3) ELSE t1
           IN  fl' = [called |-> TRUE, has_id3 |-> has_id3, frames |-> frames,
                      comments |-> comments, parse_tags |-> parse_tags,
                      id3 |-> id3, oggtag |-> oggtag, tag |-> t2]
    /\ UNCHANGED notFlac

FlacNext == FlacParseTag

(***************************************************************************)
(* MP3 duration: _ID3._determine_duration and _ID3._parse_xing_header      *)
(*                                                                         *)
(* Python computes the duration and the bitrate with float division; the   *)
(* model computes them as exact fractions in lowest terms.                 *)
(***************************************************************************)
Abs(x) == IF x < 0 THEN -x ELSE x

\* the arithmetic is defined as functions, which are applied to the values of
\* their arguments
GcdOf[a \in Nat, b \in Nat] == IF b = 0 THEN a ELSE GcdOf[b, a % b]

Gcd(a, b) == GcdOf[a, b]

RatOf[n \in Int, d \in Int] ==
    LET k == Gcd(Abs(n), Abs(d))
        sign == IF d < 0 THEN -1 ELSE 1
    IN  [num |-> sign * (n \div k), den |-> sign * (d \div k)]

\* the fraction n / d, d # 0, in lowest terms with a positive denominator
Rat(n, d) == RatOf[n, d]

RatInt(n) == [num |-> n, den |-> 1]

\* the records that stand for fractions
Fractions == [num : Int, den : Int]

RatMulOf[a \in Fractions, b \in Fractions] ==
    LET k1 == Gcd(Abs(a.num), b.den)
        k2 == Gcd(Abs(b.num), a.den)
    IN  IF a.num = 0 \/ b.num = 0 THEN RatInt(0)
        ELSE [num |-> (a.num \div k1) * (b.num \div k2),
              den |-> (a.den \div k2) * (b.den \div k1)]

\* a * b, reduced crosswise before the products are taken
RatMul(a, b) == RatMulOf[a, b]

RatDivOf[a \in Fractions, b \in Fractions] ==
    RatMul(a, IF b.num < 0 THEN [num |-> -b.den, den |-> -b.num]
              ELSE [num |-> b.den, den |-> b.num])

\* a / b for b # 0
RatDiv(a, b) == RatDivOf[a, b]

\* an attribute that is None
Unset == [num |-> 0, den |-> 0]

\* _ID3.samplerates[mpeg_id][sr_id]
SAMPLERATES(mpeg_id, sr_id) ==
    CASE mpeg_id = 0 -> <<11025, 12000, 8000>>[sr_id + 1]       \* MPEG 2.5
      [] mpeg_id = 2 -> <<22050, 24000, 16000>>[sr_id + 1]      \* MPEG 2
      [] mpeg_id = 3 -> <<44100, 48000, 32000>>[sr_id + 1]      \* MPEG 1

v1l1 == <<0, 32, 64, 96, 128, 160, 192, 224, 256, 288, 320, 352, 384, 416, 448, 0>>
v1l2 == <<0, 32, 48, 56, 64, 80, 96, 112, 128, 160, 192, 224, 256, 320, 384, 0>>
v1l3 == <<0, 32, 40, 48, 56, 64, 80, 96, 112, 128, 160, 192, 224, 256, 320, 0>>
v2l1 == <<0, 32, 48, 56, 64, 80, 96, 112, 128, 144, 160, 176, 192, 224, 256, 0>>
v2l2 == <<0, 8, 16, 24, 32, 40, 48, 56, 64, 80, 96, 112, 128, 144, 160, 0>>
v2l3 == v2l2

\* _ID3.bitrate_by_version_by_layer[mpeg_id][layer_id][br_id]; the layers go
\* from 3 to 1
BITRATE_BY_VERSION_BY_LAYER(mpeg_id, layer_id, br_id) ==
    LET row == IF mpeg_id = 3
               THEN <<v1l3, v1l2, v1l1>>        \* MPEG Version 1
               ELSE <<v2l3, v2l2, v2l1>>        \* MPEG Version 2, 2.5
    IN  row[layer_id][br_id + 1]

SAMPLES_PER_FRAME == 1152       \* _ID3.samples_per_frame
MAX_ESTIMATION_SEC == 30        \* _ID3._MAX_ESTIMATION_SEC
CBR_DETECTION_FRAME_COUNT == 5  \* _ID3._CBR_DETECTION_FRAME_COUNT

\* _ID3.channels_per_channel_mode[channel_mode]
CHANNELS_PER_CHANNEL_MODE(channel_mode) == <<2, 2, 2, 1>>[channel_mode + 1]

\* (_ID3._MAX_ESTIMATION_SEC * 44100) // _ID3.samples_per_frame
MaxEstimationFrames == (MAX_ESTIMATION_SEC * 44100) \div SAMPLES_PER_FRAME

\* b.find(pat, start) for the bytes b = w[p:]: the lowest index i >= start,
\* counted from p, at which pat stands in w; -1 when there is none
FindOf[w \in Seq(Nat), p \in Nat, pat \in Seq(Nat), start \in Nat] ==
    LET hits == {i \in start..(Len(w) - p - Len(pat)) :
                    \A j \in DOMAIN pat : w[p + i + j] = pat[j]}
    IN  IF hits = {} THEN -1 ELSE Min(hits)

Find(w, p, pat, start) == FindOf[w, p, pat, start]

\* struct.unpack('>i', four bytes): a signed 32-bit integer
UnpackBE32Signed(b) ==
    (((IF b[1] >= 128 THEN b[1] - 256 ELSE b[1]) * 256 + b[2]) * 256 + b[3]) * 256 + b[4]

\* _ID3._parse_xing_header(fh) with fh at offset q of w: the frame count, the
\* byte count and the offset fh is left at; a read that the end of w cuts
\* short makes struct.unpack raise
ParseXingHeaderOf[w \in Seq(Nat), q \in Nat] ==
    LET q1 == q + 4                                     \* read over Xing header
        short1 == q1 + 4 > Len(w)
        header_flags == UnpackBE32Signed(SubSeq(w, q1 + 1, q1 + 4))
        q2 == q1 + 4
        has_frames == header_flags % 2 = 1              \* FRAMES FLAG
        short2 == has_frames /\ q2 + 4 > Len(w)
        frames == IF has_frames THEN UnpackBE32Signed(SubSeq(w, q2 + 1, q2 + 4)) ELSE 0
        q3 == IF has_frames THEN q2 + 4 ELSE q2
        has_bytes == (header_flags \div 2) % 2 = 1      \* BYTES FLAG
        short3 == has_bytes /\ q3 + 4 > Len(w)
        byte_count == IF has_bytes THEN UnpackBE32Signed(SubSeq(w, q3 + 1, q3 + 4)) ELSE 0
        q4 == IF has_bytes THEN q3 + 4 ELSE q3
        q5 == IF (header_flags \div 4) % 2 = 1 THEN q4 + 100 ELSE q4    \* TOC FLAG
        q6 == IF (header_flags \div 8) % 2 = 1 THEN q5 + 4 ELSE q5      \* VBR SCALE FLAG
    IN  IF short1 \/ short2 \/ short3
        THEN [exc |-> "struct.error", frames |-> 0, byte_count |-> 0, pos |-> q]
        ELSE [exc |-> "", frames |-> frames, byte_count |-> byte_count, pos |-> q6]

ParseXingHeader(w, q) == ParseXingHeaderOf[w, q]

USE_XING_HEADER == TRUE         \* _ID3._USE_XING_HEADER

\* _ID3._parse_id3v2_header on the first bytes of the file, as
\* _determine_duration runs it when no tag pass has run: the size of the
\* ID3v2 tag, 0 without one, becomes _bytepos_after_id3v2
BytePosAfterId3v2(data) ==
    IF Sub(data, 1, 3) = <<73, 68, 51>> THEN CalcSize7(SubSeq(data, 7, 10)) ELSE 0

\* the end of the scan at EOF: fewer than 4 bytes are left
ScanEof(m) ==
    [m EXCEPT !.pc = "done", !.via = "eof",
              !.bitrate = IF m.frames # 0 THEN Rat(m.bitrate_accu, m.frames) ELSE @,
              !.duration = IF m.samplerate # 0
                           THEN Rat(m.frames * SAMPLES_PER_FRAME, m.samplerate)
                           ELSE @]

\* ScanSkip with a slip: when no 0xFF follows, the walker stays where it is
ScanSkipNoJump(m) ==
    LET idx == Find(m.data, m.pos, <<255>>, 1)
        jump == IF idx = -1 THEN 0 ELSE idx
    IN  [m EXCEPT !.pos = m.pos + jump]

\* invalid frame, find next sync header
ScanSkip(m) ==
    LET idx == Find(m.data, m.pos, <<255>>, 1)
        jump == IF idx = -1 THEN Len(m.data) - m.pos ELSE idx
    IN  [m EXCEPT !.pos = m.pos + (IF jump > 1 THEN jump ELSE 1)]

\* ScanXing with a slip: 1152 samples per frame for every MPEG version
ScanXingFullFrame(m, mpeg_id, samplerate, xing_header_offset) ==
    LET x == ParseXingHeader(m.data, m.pos + xing_header_offset)
        duration == Rat(x.frames * SAMPLES_PER_FRAME, samplerate)
    IN  IF x.exc # ""
        THEN [m EXCEPT !.pc = "done", !.via = "raise", !.exc = x.exc]
        ELSE IF x.frames > 0 /\ x.byte_count > 0
        THEN [m EXCEPT !.pc = "done", !.via = "xing",
                       !.duration = duration,
                       !.bitrate = RatDiv(RatDiv(RatInt(x.byte_count * 8), duration),
                                          RatInt(1000))]
        ELSE [m EXCEPT !.pos = x.pos]

\* the first frame holds a Xing header at offset xing_header_offset of the
\* peek buffer
ScanXing(m, mpeg_id, samplerate, xing_header_offset) ==
    LET x == ParseXingHeader(m.data, m.pos + xing_header_offset)
        \* MPEG-2 Audio Layer III uses 576 samples per frame
        samples_per_frame == IF mpeg_id <= 2 THEN 576 ELSE SAMPLES_PER_FRAME
        duration == Rat(x.frames * samples_per_frame, samplerate)
    IN  IF x.exc # ""
        THEN [m EXCEPT !.pc = "done", !.via = "raise", !.exc = x.exc]
        ELSE IF x.frames > 0 /\ x.byte_count > 0
        THEN [m EXCEPT !.pc = "done", !.via = "xing",
                       !.duration = duration,
                       !.bitrate = RatDiv(RatDiv(RatInt(x.byte_count * 8), duration),
                                          RatInt(1000))]
        ELSE [m EXCEPT !.pos = x.pos]

\* _determine_duration without the cap of max_estimation_frames: the
\* estimate is made for a constant bitrate only
ScanCountNoCap(m, frame_bitrate, samplerate, padding) ==
    LET frames == m.frames + 1
        bitrate_accu == m.bitrate_accu + frame_bitrate
        audio_offset == IF frames = 1 THEN m.pos ELSE m.audio_offset
        last_bitrates == IF frames <= CBR_DETECTION_FRAME_COUNT
                         THEN Append(m.last_bitrates, frame_bitrate)
                         ELSE m.last_bitrates
        frame_length == (144000 * frame_bitrate) \div samplerate + padding
        frame_size_accu == m.frame_size_accu + frame_length
        is_cbr == /\ frames = CBR_DETECTION_FRAME_COUNT
                  /\ Cardinality({last_bitrates[i] : i \in DOMAIN last_bitrates}) = 1
        counted == [m EXCEPT !.frames = frames, !.bitrate_accu = bitrate_accu,
                             !.audio_offset = audio_offset,
                             !.last_bitrates = last_bitrates,
                             !.frame_size_accu = frame_size_accu]
        audio_stream_size == (Len(m.data) - 128) - audio_offset
        est_frame_count == RatDiv(RatInt(audio_stream_size), Rat(frame_size_accu, frames))
        samples == RatMul(est_frame_count, RatInt(SAMPLES_PER_FRAME))
    IN  IF is_cbr
        THEN IF Len(m.data) < 128
             THEN [counted EXCEPT !.pc = "done", !.via = "raise", !.exc = "OSError"]
             ELSE [counted EXCEPT !.pc = "done", !.via = "estimate",
                                  !.duration = RatDiv(samples, RatInt(samplerate)),
                                  !.bitrate = Rat(bitrate_accu, frames)]
        ELSE [counted EXCEPT
                !.pos = m.pos + 4 + (IF frame_length > 1 THEN frame_length - 4 ELSE 0)]

\* it's most probably an mp3 frame: the frame is counted
ScanCount(m, frame_bitrate, samplerate, padding) ==
    LET frames == m.frames + 1
        bitrate_accu == m.bitrate_accu + frame_bitrate
        audio_offset == IF frames = 1 THEN m.pos ELSE m.audio_offset
        last_bitrates == IF frames <= CBR_DETECTION_FRAME_COUNT
                         THEN Append(m.last_bitrates, frame_bitrate)
                         ELSE m.last_bitrates
        frame_length == (144000 * frame_bitrate) \div samplerate + padding
        frame_size_accu == m.frame_size_accu + frame_length
        \* if bitrate does not change over time its probably CBR
        is_cbr == /\ frames = CBR_DETECTION_FRAME_COUNT
                  /\ Cardinality({last_bitrates[i] : i \in DOMAIN last_bitrates}) = 1
        counted == [m EXCEPT !.frames = frames, !.bitrate_accu = bitrate_accu,
                             !.audio_offset = audio_offset,
                             !.last_bitrates = last_bitrates,
                             !.frame_size_accu = frame_size_accu]
        \* fh.seek(-128, 2); fh.tell() - audio_offset
        audio_stream_size == (Len(m.data) - 128) - audio_offset
        est_frame_count == RatDiv(RatInt(audio_stream_size), Rat(frame_size_accu, frames))
        samples == RatMul(est_frame_count, RatInt(SAMPLES_PER_FRAME))
    IN  IF frames = MaxEstimationFrames \/ is_cbr
        THEN IF Len(m.data) < 128
             THEN [counted EXCEPT !.pc = "done", !.via = "raise", !.exc = "OSError"]
             ELSE [counted EXCEPT !.pc = "done", !.via = "estimate",
                                  !.duration = RatDiv(samples, RatInt(samplerate)),
                                  !.bitrate = Rat(bitrate_accu, frames)]
        ELSE [counted EXCEPT
                !.pos = m.pos + 4 + (IF frame_length > 1 THEN frame_length - 4 ELSE 0)]

\* one round of the loop of _determine_duration, the walker at m.pos
ScanStep(m) ==
    LET conf == m.data[m.pos + 2]
        bitrate_freq == m.data[m.pos + 3]
        rest == m.data[m.pos + 4]
        br_id == (bitrate_freq \div 16) % 16            \* biterate id
        sr_id == (bitrate_freq \div 4) % 4              \* sample rate id
        padding == IF (bitrate_freq \div 2) % 2 = 1 THEN 1 ELSE 0
        mpeg_id == (conf \div 8) % 4
        layer_id == (conf \div 2) % 4
        channel_mode == (rest \div 64) % 4
        \* b[:2] > b'\xFF\xE0'
        sync == m.data[m.pos + 1] = 255 /\ conf > 224
        frame_bitrate == BITRATE_BY_VERSION_BY_LAYER(mpeg_id, layer_id, br_id)
        samplerate == SAMPLERATES(mpeg_id, sr_id)
        valid == [m EXCEPT !.channels = CHANNELS_PER_CHANNEL_MODE(channel_mode),
                           !.samplerate = samplerate,
                           !.headers = Append(@, m.pos)]
        xing_header_offset == Find(m.data, m.pos, <<88, 105, 110, 103>>, 0)
    IN  IF Len(m.data) - m.pos < 4 THEN ScanEof(m)
        ELSE IF ~sync \/ br_id > 14 \/ br_id = 0 \/ sr_id = 3 \/ layer_id = 0 \/ mpeg_id = 1
        THEN ScanSkip(m)
        ELSE IF m.frames = 0 /\ USE_XING_HEADER /\ xing_header_offset # -1
        THEN ScanXing(valid, mpeg_id, samplerate, xing_header_offset)
        ELSE ScanCount(valid, frame_bitrate, samplerate, padding)

(***************************************************************************)
(* MP3 streams: Layer III frames of one MPEG version and sample-rate index *)
(* 1, each as long as its header says, after an optional prefix and before *)
(* an optional 128-byte tail                                               *)
(***************************************************************************)
MaxMp3Frames == 6       \* most frames of a stream after its first frame

\* the four bytes of a frame header
Mp3Header(mpeg_id, layer_id, br_id, sr_id, pad, channel_mode) ==
    <<255, 224 + mpeg_id * 8 + layer_id * 2 + 1, br_id * 16 + sr_id * 4 + pad * 2,
      channel_mode * 64>>

\* the length in bytes of a Layer III frame of the streams
FrameLen(mpeg_id, br_id) ==
    (144000 * BITRATE_BY_VERSION_BY_LAYER(mpeg_id, 1, br_id)) \div SAMPLERATES(mpeg_id, 1)

Mp3Frame(mpeg_id, br_id, body) ==
    Mp3Header(mpeg_id, 1, br_id, 1, 0, 0) \o body
        \o Zeros(FrameLen(mpeg_id, br_id) - 4 - Len(body))

\* the frames of a pattern of bitrate indexes, one after the other (built by
\* halves, so that a pattern of a thousand frames stays shallow)
RECURSIVE Mp3Frames(_, _)
Mp3Frames(mpeg_id, pattern) ==
    IF pattern = <<>> THEN <<>>
    ELSE IF Len(pattern) = 1 THEN Mp3Frame(mpeg_id, pattern[1], <<>>)
    ELSE LET h == Len(pattern) \div 2
         IN  Mp3Frames(mpeg_id, SubSeq(pattern, 1, h))
                \o Mp3Frames(mpeg_id, SubSeq(pattern, h + 1, Len(pattern)))

\* struct.pack('>i', n)
BE32(n) ==
    LET u == IF n < 0 THEN -n - 1 ELSE n
        b == <<u \div 16777216, (u \div 65536) % 256, (u \div 256) % 256, u % 256>>
    IN  IF n < 0 THEN [i \in 1..4 |-> 255 - b[i]] ELSE b

NoXing == [present |-> FALSE, flags |-> 0, frames |-> 0, byte_count |-> 0, cut |-> FALSE]

\* Xing headers: their flags, frame count and byte count; cut: the stream ends
\* inside the header
XingHeaders ==
    [present : {TRUE}, flags : {3}, frames : {100, 0, -1}, byte_count : {144000, 0},
     cut : {FALSE}]
    \cup {[present |-> TRUE, flags |-> 1, frames |-> 100, byte_count |-> 0, cut |-> FALSE],
          [present |-> TRUE, flags |-> 2, frames |-> 0, byte_count |-> 144000, cut |-> FALSE],
          [present |-> TRUE, flags |-> 0, frames |-> 0, byte_count |-> 0, cut |-> FALSE],
          [present |-> TRUE, flags |-> 3, frames |-> 100, byte_count |-> 144000, cut |-> TRUE]}

\* the payload of a frame with a Xing header: side information, the marker,
\* the flags and the fields the flags announce
XingBody(x) ==
    Zeros(4) \o <<88, 105, 110, 103>> \o BE32(x.flags)
        \o (IF x.flags % 2 = 1 THEN BE32(x.frames) ELSE <<>>)
        \o (IF (x.flags \div 2) % 2 = 1 THEN BE32(x.byte_count) ELSE <<>>)

Mp3Prefix(prefix) ==
    CASE prefix = "none" -> <<>>
      [] prefix = "garbage" -> <<0, 255, 0>>
      \* four bytes with the sync bits that are no frame header
      [] prefix = "bitrate 15" -> <<255, 251, 244, 0>>
      [] prefix = "bitrate 0" -> <<255, 251, 4, 0>>
      [] prefix = "samplerate 3" -> <<255, 251, 28, 0>>
      [] prefix = "layer 0" -> <<255, 249, 20, 0>>
      [] prefix = "layer 0, mpeg 2.5" -> <<255, 225, 20, 0>>
      [] prefix = "mpeg reserved" -> <<255, 235, 20, 0>>
      \* ten sync bits; 0xFF as the last byte of the four
      [] prefix = "short sync" -> <<255, 219, 20, 255>>
      \* an ID3v2.3 tag of size 10 that holds padding only
      [] prefix = "id3" -> <<73, 68, 51, 3, 0, 0, 0, 0, 0, 10>> \o Zeros(10)

\* a stream of n frames with a variable bitrate: the first frame has bitrate
\* index 2, the others index 1
LongPattern(n) == [i \in 1..n |-> IF i = 1 THEN 2 ELSE 1]

\* the frame counts of the long streams: below, at and above the cap of the
\* estimation
LongFrameCounts == {MaxEstimationFrames - 1, MaxEstimationFrames, MaxEstimationFrames + 2}

\* the prefixes that begin with an invalid sync candidate
InvalidCandidates ==
    {"bitrate 15", "bitrate 0", "samplerate 3", "layer 0", "layer 0, mpeg 2.5",
     "mpeg reserved", "short sync"}

\* the long streams: MPEG 2 frames of 96 and 48 bytes before a 128-byte tail
LongMp3Inputs ==
    [mpeg_id : {2}, prefix : {"none"}, xing : {NoXing}, late : {NoXing},
     pattern : {LongPattern(n) : n \in LongFrameCounts}, tail : {TRUE}]

\* Xing headers that stand in the second frame of a stream, behind a first
\* frame that has none
LateXingHeaders ==
    {x \in XingHeaders : x.flags = 3 /\ ~x.cut /\ x.frames \in {100, 0}}

\* xing: the header in the first frame; late: the one in the second frame
Mp3Inputs ==
    [mpeg_id : {2, 3}, prefix : {"none", "garbage", "id3"}, xing : {NoXing}, late : {NoXing},
     pattern : SeqsUpTo({1, 2}, MaxMp3Frames), tail : BOOLEAN]
    \cup [mpeg_id : {0, 2, 3}, prefix : {"none", "id3"}, xing : XingHeaders, late : {NoXing},
          pattern : {<<>>, <<1, 1, 1, 1, 1>>}, tail : {TRUE}]
    \cup [mpeg_id : {3}, prefix : InvalidCandidates, xing : {NoXing}, late : {NoXing},
          pattern : {<<>>, <<1, 2>>}, tail : BOOLEAN]
    \cup [mpeg_id : {2, 3}, prefix : {"none", "garbage"}, xing : {NoXing},
          late : LateXingHeaders, pattern : {<<>>, <<2>>}, tail : {TRUE}]

\* the bytes of a stream
Mp3Stream(in) ==
    LET first == IF in.late.present
                 THEN Mp3Frame(in.mpeg_id, 1, <<>>) \o Mp3Frame(in.mpeg_id, 1, XingBody(in.late))
                 ELSE IF ~in.xing.present THEN <<>>
                 ELSE IF in.xing.cut
                 THEN Mp3Header(in.mpeg_id, 1, 1, 1, 0, 0) \o SubSeq(XingBody(in.xing), 1, 10)
                 ELSE Mp3Frame(in.mpeg_id, 1, XingBody(in.xing))
        rest == IF in.xing.cut THEN <<>>
                ELSE Mp3Frames(in.mpeg_id, in.pattern)
                        \o (IF in.tail THEN Zeros(128) ELSE <<>>)
    IN  Mp3Prefix(in.prefix) \o first \o rest

Mp3Init ==
    mp = [pc |-> "idle", in |-> [mpeg_id |-> 3, prefix |-> "none", xing |-> NoXing,
                                  late |-> NoXing, pattern |-> <<>>, tail |-> FALSE],
          data |-> <<>>, file_offset |-> 0, pos |-> 0,
          frames |-> 0, bitrate_accu |-> 0, frame_size_accu |-> 0, last_bitrates |-> <<>>,
          audio_offset |-> 0, headers |-> <<>>,
          channels |-> 0, samplerate |-> 0, duration |-> Unset, bitrate |-> Unset,
          via |-> "", exc |-> ""]

\* _determine_duration up to its loop, with no tag pass before it: the ID3v2
\* header is read (struct.unpack raises on fewer than 10 bytes) and the
\* walker starts at _bytepos_after_id3v2
Mp3CallOn(inputs) ==
    /\ mp.pc = "idle"
    /\ \E in \in inputs :
        LET data == Mp3Stream(in)
            called == [mp EXCEPT !.in = in, !.data = data]
        IN  mp' = IF Len(data) < 10
                  THEN [called EXCEPT !.pc = "done", !.via = "raise", !.exc = "struct.error"]
                  ELSE [called EXCEPT !.pc = "scan",
                                      !.file_offset = BytePosAfterId3v2(data),
                                      !.pos = BytePosAfterId3v2(data)]
    /\ UNCHANGED notMp3

\* one round of the loop
Mp3Scan ==
    /\ mp.pc = "scan"
    /\ mp' = ScanStep(mp)
    /\ UNCHANGED notMp3

Mp3Call == Mp3CallOn(Mp3Inputs)

Mp3Next == Mp3Call \/ Mp3Scan

\* the duration pass on a long stream
Mp3CallLong == Mp3CallOn(LongMp3Inputs)

Mp3LongNext == Mp3CallLong \/ Mp3Scan

(***************************************************************************)
(* Ogg pages: _Ogg._parse_pages                                            *)
(***************************************************************************)
\* fh.read(n) at offset pos
ReadAt(data, pos, n) ==
    SubSeq(data, pos + 1, IF pos + n < Len(data) THEN pos + n ELSE Len(data))

\* sum(segsizes)
RECURSIVE Sum(_)
Sum(s) == IF s = <<>> THEN 0 ELSE Head(s) + Sum(Tail(s))

\* the numbers of 2^29 and more are held as 2^29, which is more than the size
\* of every stream of the model and than every number the model computes with
Huge == 536870912

LEValueOf[b \in Seq(Nat)] ==
    IF b = <<>> THEN 0
    ELSE IF LEValueOf[Tail(b)] >= 2097152 THEN Huge
    ELSE b[1] + 256 * LEValueOf[Tail(b)]

\* the granule position of a page header, '<q' at bytes 6..13: a signed number
\* in two's complement
GranulePos(header_data) ==
    IF header_data[14] >= 128
    THEN -(LEValueOf[[i \in 1..8 |-> 255 - header_data[6 + i]]] + 1)
    ELSE LEValueOf[SubSeq(header_data, 7, 14)]

\* the for loop of _parse_pages over segsizes[i..]: total, the read offset,
\* previous_page and the packets yielded so far
RECURSIVE ReadSegments(_, _, _, _, _, _)
ReadSegments(data, segsizes, i, total, pos, acc) ==
    IF i > Len(segsizes) THEN [total |-> total, pos |-> pos, acc |-> acc]
    ELSE LET t == total + segsizes[i]
         IN  IF t < 255     \* less than 255 bytes means end of page
             THEN ReadSegments(data, segsizes, i + 1, 0, pos + t,
                               [previous_page |-> <<>>,
                                packets |-> Append(acc.packets,
                                               acc.previous_page \o ReadAt(data, pos, t))])
             ELSE ReadSegments(data, segsizes, i + 1, t, pos, acc)

\* one round of the while loop of _parse_pages: the header at o.pos holds 27
\* bytes
ReadPage(o) ==
    LET header_data == ReadAt(o.data, o.pos, 27)
        segments == header_data[27]
        segsizes == ReadAt(o.data, o.pos + 27, segments)
        r == ReadSegments(o.data, segsizes, 1, 0, o.pos + 27 + segments,
                          [previous_page |-> o.previous_page, packets |-> o.packets])
        seen == [o EXCEPT !.max_samplenum =
                    IF GranulePos(header_data) > @ THEN GranulePos(header_data) ELSE @]
    IN  IF Sub(header_data, 1, 4) # <<79, 103, 103, 83>> \/ header_data[5] # 0
        THEN [seen EXCEPT !.pc = "done", !.exc = "TinyTagException"]
        \* struct.unpack('B' * segments, ...) of a segment table that the
        \* end of the stream cuts short
        ELSE IF Len(segsizes) < segments
        THEN [seen EXCEPT !.pc = "done", !.exc = "struct.error",
                          !.pos = o.pos + 27 + Len(segsizes)]
        ELSE LET rest == ReadAt(o.data, r.pos, r.total)
                 after == IF r.total = 0 THEN r.acc
                          ELSE IF r.total % 255 = 0
                          THEN [previous_page |-> r.acc.previous_page \o rest,
                                packets |-> r.acc.packets]
                          ELSE [previous_page |-> <<>>,
                                packets |-> Append(r.acc.packets,
                                               r.acc.previous_page \o rest)]
                 next == r.pos + r.total
             IN  [seen EXCEPT !.pos = next,
                              !.previous_page = after.previous_page,
                              !.packets = after.packets,
                              !.pc = IF Len(ReadAt(o.data, next, 27)) = 27
                                     THEN "page" ELSE "done"]

(***************************************************************************)
(* Ogg streams: one or two pages, each a header, a segment table and the   *)
(* payload the table announces                                             *)
(***************************************************************************)
MaxSegments == 3        \* most segments of the page of a one-page stream

SegmentValues == {0, 10, 20, 255}

\* the segment tables of the pages of a two-page stream
ShortTables ==
    {<<255>>, <<10>>, <<255, 255>>, <<255, 10>>, <<10, 255>>, <<255, 0>>,
     <<255, 10, 255>>, <<>>}

\* the segment tables of a stream, page by page
OggTables ==
    {<<t>> : t \in SeqsUpTo(SegmentValues, MaxSegments)}
    \cup {<<t1, t2>> : t1 \in ShortTables, t2 \in ShortTables}

\* payload byte number k of a stream, counted from 1
PayloadByte(k) == k % 251

\* the payload bytes of a stream before page i
RECURSIVE PayloadBefore(_, _)
PayloadBefore(tables, i) ==
    IF i = 1 THEN 0 ELSE PayloadBefore(tables, i - 1) + Sum(tables[i - 1])

\* the bytes of page i: OggS, version, flags, granule position i, serial
\* number, page number, checksum, the segment table and the payload
OggPageBytes(tables, i, version) ==
    <<79, 103, 103, 83, version, 0>> \o <<i>> \o Zeros(7) \o Zeros(12)
        \o <<Len(tables[i])>> \o tables[i]
        \o [k \in 1..Sum(tables[i]) |-> PayloadByte(PayloadBefore(tables, i) + k)]

RECURSIVE OggStream(_, _, _)
OggStream(tables, i, bad) ==
    IF i > Len(tables) THEN <<>>
    ELSE OggPageBytes(tables, i, IF bad /\ i = Len(tables) THEN 1 ELSE 0)
            \o OggStream(tables, i + 1, bad)

OggInit ==
    og = [pc |-> "idle", tables |-> <<>>, bad |-> FALSE, data |-> <<>>, pos |-> 0,
          previous_page |-> <<>>, packets |-> <<>>, max_samplenum |-> 0, exc |-> ""]

\* _parse_pages up to its loop: previous_page = b'', the first header is read
OggCall ==
    /\ og.pc = "idle"
    /\ \E tables \in OggTables, bad \in BOOLEAN :
        LET data == OggStream(tables, 1, bad)
        IN  og' = [og EXCEPT !.tables = tables, !.bad = bad, !.data = data,
                             !.pc = IF Len(ReadAt(data, 0, 27)) = 27 THEN "page" ELSE "done"]
    /\ UNCHANGED notOgg

\* one page is read and its packets are yielded
OggPage ==
    /\ og.pc = "page"
    /\ og' = ReadPage(og)
    /\ UNCHANGED notOgg

OggNext == OggCall \/ OggPage

(***************************************************************************)
(* FLAC STREAMINFO: the first branch of the block loop of _Flac._parse_tag *)
(***************************************************************************)
\* TinyTag._bytes_to_int(b): reduce(lambda accu, elem: (accu << 8) + elem, b, 0)
BytesToIntOf[b \in Seq(Nat)] ==
    IF b = <<>> THEN 0 ELSE BytesToIntOf[SubSeq(b, 1, Len(b) - 1)] * 256 + b[Len(b)]

BytesToInt(b) == BytesToIntOf[b]

\* the STREAMINFO branch on the block read, stream_info_header: the values
\* of struct.unpack('HH3s3s8B16s') numbered 4..11 are the bytes 11..18 of the
\* block, counted from 1
ParseStreamInfo(s, stream_info_header) ==
    IF Len(stream_info_header) < 34 THEN s                     \* invalid streaminfo
    ELSE IF Len(stream_info_header) # 34
    THEN [s EXCEPT !.exc = "struct.error"]
    ELSE LET hv(i) == stream_info_header[i + 7]                 \* header_values[i]
             samplerate == BytesToInt(<<hv(4), hv(5), hv(6)>>) \div 16
             channels == ((hv(6) \div 2) % 8) + 1
             bitdepth == ((hv(6) % 2) * 16) + ((hv(7) \div 16) % 16) + 1
             total_samples ==
                 BytesToInt(<<hv(7) % 16, hv(8), hv(9), hv(10), hv(11)>>)
             t == [s EXCEPT !.samplerate = samplerate, !.channels = channels,
                            !.bitdepth = bitdepth, !.total_samples = total_samples]
         IN  IF samplerate = 0
             THEN [t EXCEPT !.exc = "ZeroDivisionError"]
             ELSE LET duration == Rat(total_samples, samplerate)
                  IN  [t EXCEPT !.duration = duration,
                                !.bitrate =
                                    IF duration.num > 0
                                    THEN RatDiv(RatMul(RatDiv(RatInt(s.filesize), duration),
                                                       RatInt(8)), RatInt(1000))
                                    ELSE @]

\* _Flac._parse_tag on a stream that opens with fLaC: the first block header
\* is read; a STREAMINFO block is decoded when the duration is asked for, any
\* other block is passed over
FlacFirstBlock(s, data, parse_duration) ==
    LET header_data == ReadAt(data, 4, 4)
        block_type == header_data[1] % 128
        size == BytesToInt(SubSeq(header_data, 2, 4))
    IN  IF ReadAt(data, 0, 4) # <<102, 76, 97, 67>>
        THEN [s EXCEPT !.exc = "TinyTagException"]
        ELSE IF Len(header_data) # 4 THEN s
        ELSE IF block_type = 0 /\ parse_duration
        THEN ParseStreamInfo(s, ReadAt(data, 8, size))
        ELSE s

\* bytes 10..17 of the STREAMINFO blocks, counted from 0: sample rates 0,
\* 44100 and others, 1 to 8 channels, depths 1 to 32, sample counts below 2^17
\* times 256 (the top 4 bits of the 36 are clear)
PackedBytes ==
    {<<b10, b11, b12, b13, 0, b15, b16, b17>> :
        b10 \in {0, 10}, b11 \in {0, 196}, b12 \in {0, 66, 67, 255},
        b13 \in {0, 240}, b15 \in {0, 1}, b16 \in {0, 172}, b17 \in {0, 68}}

\* a FLAC stream: the marker, the header of a last block of type 0 and the
\* block, 34 bytes with extra more, or fewer
FlacStream(packed, extra) ==
    LET block == Zeros(10) \o packed \o Zeros(16 + extra)
    IN  <<102, 76, 97, 67>> \o <<128, 0, 0, Len(block)>> \o block

StreamInfoInit ==
    si = [called |-> FALSE, packed |-> <<>>, extra |-> 0, parse_duration |-> FALSE,
          filesize |-> 0, samplerate |-> 0, channels |-> 0, bitdepth |-> 0,
          total_samples |-> 0, duration |-> Unset, bitrate |-> Unset, exc |-> ""]

\* _Flac._parse_tag, with the file size TinyTag.get has stored
StreamInfoParse ==
    /\ ~si.called
    /\ \E packed \in PackedBytes, extra \in {-1, 0, 1}, parse_duration \in BOOLEAN,
          pad \in {0, 58} :
        LET data == FlacStream(packed, extra) \o Zeros(pad)
        IN  si' = FlacFirstBlock([si EXCEPT !.called = TRUE, !.packed = packed,
                                            !.extra = extra,
                                            !.parse_duration = parse_duration,
                                            !.filesize = Len(data)],
                                 data, parse_duration)
    /\ UNCHANGED notStreamInfo

StreamInfoNext == StreamInfoParse

(***************************************************************************)
(* ID3v2 on the bytes of a stream: _ID3._parse_id3v2_header, _parse_id3v2  *)
(* and the header part of _parse_frame                                     *)
(***************************************************************************)
\* _ID3._calc_size(bytestr, bits_per_byte):
\* reduce(lambda accu, elem: (accu << bits_per_byte) + elem, bytestr, 0)
CalcSizeOf[bytestr \in Seq(Nat), bits_per_byte \in Nat] ==
    IF bytestr = <<>> THEN 0
    ELSE CalcSizeOf[SubSeq(bytestr, 1, Len(bytestr) - 1), bits_per_byte] * (2 ^ bits_per_byte)
            + bytestr[Len(bytestr)]

CalcSize(bytestr, bits_per_byte) == CalcSizeOf[bytestr, bits_per_byte]

\* self._decode_string(frame[0]) of the frame ids of the model; "" for the id
\* of four zero bytes, "?" for any other
FrameIdOf(b) ==
    CASE b = <<84, 73, 84, 50>> -> "TIT2"
      [] b = <<84, 80, 69, 49>> -> "TPE1"
      [] b = <<84, 84, 50>> -> "TT2"
      [] b = <<84, 80, 49>> -> "TP1"
      [] OTHER -> IF \A i \in DOMAIN b : b[i] = 0 THEN "" ELSE "?"

\* _ID3._parse_id3v2_header on the 10 bytes read
ParseId3v2Header(header) ==
    IF Sub(header, 1, 3) = <<73, 68, 51>>
    THEN [size |-> CalcSize(SubSeq(header, 7, 10), 7),
          extended |-> (header[6] \div 64) % 2 = 1,
          major |-> header[4]]
    ELSE [size |-> 0, extended |-> FALSE, major |-> 0]

\* the lines of _ID3._parse_id3v2 before its loop, the stream at offset v.pos
ParseId3v2Start(v, data) ==
    LET header == ReadAt(data, v.pos, 10)
        h == ParseId3v2Header(header)
        at == v.pos + 10
        size_bytes == Sub(ReadAt(data, at, 6), 1, 4)
        extd_size == CalcSize(size_bytes, 7)
    IN  IF Len(header) # 10 THEN [v EXCEPT !.pc = "done", !.exc = "struct.error"]
        ELSE IF h.size = 0
        THEN [v EXCEPT !.pc = "done", !.pos = at, !.bytepos_after_id3v2 = 0]
        ELSE IF ~h.extended
        THEN [v EXCEPT !.pc = "frames", !.pos = at, !.size = h.size, !.major = h.major,
                       !.end_pos = at + h.size, !.bytepos_after_id3v2 = h.size]
        ELSE IF Len(size_bytes) # 4
        THEN [v EXCEPT !.pc = "done", !.pos = at + Len(ReadAt(data, at, 6)),
                       !.exc = "struct.error"]
        ELSE [v EXCEPT !.pc = "frames", !.pos = at + 6 + (extd_size - 6),
                       !.size = h.size, !.major = h.major, !.end_pos = at + h.size,
                       !.bytepos_after_id3v2 = h.size]

\* one round of the loop of _ID3._parse_id3v2, parsed_size < size: a frame
\* header is read by _parse_frame and, when it announces content, the content
\* is read and written to the record; when the loop ends, fh.seek(end_pos)
ParseId3v2Round(v, data, parse_tags) ==
    LET frame_header_size == IF v.major = 2 THEN 6 ELSE 10
        frame_size_bytes == IF v.major = 2 THEN 3 ELSE 4
        bits_per_byte == IF v.major = 4 THEN 7 ELSE 8     \* only id3v2.4 is synchsafe
        frame_header_data == ReadAt(data, v.pos, frame_header_size)
        frame_id == FrameIdOf(SubSeq(frame_header_data, 1, frame_size_bytes))
        frame_size ==
            CalcSize(SubSeq(frame_header_data, frame_size_bytes + 1, 2 * frame_size_bytes),
                     bits_per_byte)
        at == v.pos + Len(frame_header_data)
        content == ReadAt(data, at, frame_size)
        read == [v EXCEPT !.header_reads = Append(@, v.pos)]
    IN  IF Len(frame_header_data) # frame_header_size \/ frame_size = 0
        THEN [read EXCEPT !.pc = "done", !.pos = v.end_pos]
        ELSE [read EXCEPT
                !.tag = ParseFrame(@, [frame_id |-> frame_id, content |-> content],
                                   parse_tags),
                !.frames = @ + 1,
                !.parsed_size = @ + frame_size,
                !.pos = IF v.parsed_size + frame_size < v.size
                        THEN at + Len(content) ELSE v.end_pos,
                !.pc = IF v.parsed_size + frame_size < v.size THEN "frames" ELSE "done"]

MaxTagFrames == 2       \* most frames inside an ID3v2 tag

\* the bytes of a frame of an ID3v2 tag of the given major version: the id,
\* the size of the content, two flag bytes from version 3 on, the content
FrameBytes(major, frame) ==
    LET n == Len(frame.content)
        id == CASE frame.frame_id = "TIT2" ->
                    IF major = 2 THEN <<84, 84, 50>> ELSE <<84, 73, 84, 50>>
                [] frame.frame_id = "TPE1" ->
                    IF major = 2 THEN <<84, 80, 49>> ELSE <<84, 80, 69, 49>>
    IN  id \o (IF major = 2 THEN <<0, 0, n>> ELSE <<0, 0, 0, n, 0, 0>>) \o frame.content

RECURSIVE FramesBytes(_, _)
FramesBytes(major, frames) ==
    IF frames = <<>> THEN <<>>
    ELSE FrameBytes(major, Head(frames)) \o FramesBytes(major, Tail(frames))

\* frames of a tag: TIT2 'A', TPE1 'B', and a TIT2 frame of no content
TagFrames ==
    { [frame_id |-> "TIT2", content |-> Latin1(<<65>>)],
      [frame_id |-> "TPE1", content |-> Latin1(<<66>>)],
      [frame_id |-> "TIT2", content |-> <<>>] }

\* what follows the tag: nothing, 3 bytes, 12 zero bytes, or bytes that read
\* as a TIT2 frame 'Z'
AfterTag(major, after) ==
    CASE after = "none" -> <<>>
      [] after = "short" -> <<255, 251, 144>>
      [] after = "zeros" -> Zeros(12)
      [] after = "frame" ->
            FrameBytes(major, [frame_id |-> "TIT2", content |-> Latin1(<<90>>)])

\* streams that open with an ID3v2 tag, or with 10 bytes that are none, or
\* that end inside the tag header
Id3v2Inputs ==
    [major : {2, 3, 4}, frames : SeqsUpTo(TagFrames, MaxTagFrames),
     padding : {0, 10}, extended : BOOLEAN, after : {"none", "short", "zeros", "frame"},
     magic : {"ID3"}]
    \cup [major : {3}, frames : {<<>>}, padding : {0}, extended : {FALSE},
          after : {"none", "zeros"}, magic : {"none", "cut"}]

\* the stream of an input: the tag header with the size of frames and
\* padding (and of the 6 bytes of an extended header), the frames, the
\* padding, and what follows the tag
Id3v2Stream(in) ==
    LET body == (IF in.extended THEN <<0, 0, 0, 6, 0, 0>> ELSE <<>>)
                    \o FramesBytes(in.major, in.frames) \o Zeros(in.padding)
    IN  CASE in.magic = "cut" -> <<73, 68, 51>>
          [] in.magic = "none" -> <<255, 251, 144, 0>> \o Zeros(6) \o AfterTag(in.major, in.after)
          [] in.magic = "ID3" ->
                <<73, 68, 51, in.major, 0, IF in.extended THEN 64 ELSE 0>>
                    \o <<0, 0, 0, Len(body)>> \o body \o AfterTag(in.major, in.after)

\* _ID3(), before its ID3v2 pass
NewId3v2 ==
    [pc |-> "idle", in |-> <<>>, pos |-> 0, size |-> 0, major |-> 0, end_pos |-> 0,
     bytepos_after_id3v2 |-> 0, parsed_size |-> 0, frames |-> 0,
     header_reads |-> <<>>, tag |-> NewTag, exc |-> ""]

\* the rounds of the loop of _ID3._parse_id3v2, to its end
RECURSIVE ParseId3v2Rounds(_, _, _)
ParseId3v2Rounds(v, data, parse_tags) ==
    IF v.pc = "frames"
    THEN ParseId3v2Rounds(ParseId3v2Round(v, data, parse_tags), data, parse_tags)
    ELSE v

\* _ID3._parse_id3v2(fh) of a new _ID3, fh at offset pos
ParseId3v2At(data, pos, parse_tags) ==
    ParseId3v2Rounds(ParseId3v2Start([NewId3v2 EXCEPT !.pos = pos], data), data, parse_tags)

Id3v2Init == iv = NewId3v2

\* _ID3._parse_id3v2 up to its loop
Id3v2Call ==
    /\ iv.pc = "idle"
    /\ \E in \in Id3v2Inputs :
        iv' = ParseId3v2Start([iv EXCEPT !.in = in], Id3v2Stream(in))
    /\ UNCHANGED notId3v2

\* one round of the loop of _ID3._parse_id3v2
Id3v2Frame ==
    /\ iv.pc = "frames"
    /\ iv' = ParseId3v2Round(iv, Id3v2Stream(iv.in), TRUE)
    /\ UNCHANGED notId3v2

Id3v2Next == Id3v2Call \/ Id3v2Frame

(***************************************************************************)
(* WAV: _Wave._parse_tag                                                   *)
(***************************************************************************)
\* struct.unpack of an unsigned little-endian field ('H', 'I' on the
\* little-endian machines the library runs on)
RECURSIVE UnpackLE(_)
UnpackLE(b) == IF b = <<>> THEN 0 ELSE Head(b) + 256 * UnpackLE(Tail(b))

\* data.split(b'\x00', 1)[0]
SplitNul(b) == IF IndexOf(b, NUL) = 0 THEN b ELSE SubSeq(b, 1, IndexOf(b, NUL) - 1)

\* _Wave.riff_mapping.get(field), "" for None: the ids of the fields of the
\* model
RIFF_MAPPING(field) ==
    CASE field = <<73, 78, 65, 77>> -> "title"              \* INAM
      [] field = <<84, 73, 84, 76>> -> "title"              \* TITL
      [] field = <<73, 65, 82, 84>> -> "artist"             \* IART
      [] field = <<73, 77, 85, 83>> -> "extra.composer"     \* IMUS
      [] field = <<73, 80, 82, 84>> -> "track"              \* IPRT
      [] OTHER -> ""

\* the loop over the sub-chunks of a LIST/INFO chunk, sub_fh at offset p;
\* data.decode('utf-8') of ASCII bytes is the text they spell, a byte from
\* 128 on that starts no UTF-8 sequence raises UnicodeDecodeError
RECURSIVE ParseInfo(_, _, _)
ParseInfo(r, sub, p) ==
    LET field == ReadAt(sub, p, 4)
        length == ReadAt(sub, p + 4, 4)
        data_length == UnpackLE(length) + (UnpackLE(length) % 2)
        read == ReadAt(sub, p + 8, data_length)
        data == SplitNul(read)
        fieldname == RIFF_MAPPING(field)
        next == p + 8 + Len(read)
    IN  IF Len(field) # 4 THEN r
        ELSE IF Len(length) # 4 THEN [r EXCEPT !.exc = "struct.error"]
        ELSE IF fieldname = "" THEN ParseInfo(r, sub, next)
        ELSE IF \E i \in DOMAIN data : data[i] >= 128
        THEN [r EXCEPT !.exc = "UnicodeDecodeError"]
        ELSE IF fieldname = "track"
        THEN IF IntOf(data).ok
             THEN ParseInfo([r EXCEPT !.tag = SetField(@, fieldname, PyInt(IntOf(data).n))],
                            sub, next)
             ELSE ParseInfo(r, sub, next)                   \* ValueError
        ELSE IF data # <<>>
        THEN ParseInfo([r EXCEPT !.tag = SetField(@, fieldname, PyStr(data))], sub, next)
        ELSE ParseInfo(r, sub, next)

\* _Wave._parse_tag up to its loop
WaveStart(w, data) ==
    IF WaveCheck(data) # ""
    THEN [w EXCEPT !.pc = "done", !.exc = WaveCheck(data)]
    ELSE [w EXCEPT !.bitdepth = PyInt(16), !.pos = 12,
                   !.pc = IF Len(ReadAt(data, 12, 8)) = 8 THEN "chunk" ELSE "done"]

\* one round of the loop of _Wave._parse_tag, the chunk header at w.pos: the
\* branch of the chunk, then the read of the next chunk header
WaveChunk(w, data, parse_tags) ==
    LET chunk_header == ReadAt(data, w.pos, 8)
        subchunkid == SubSeq(chunk_header, 1, 4)
        size == UnpackLE(SubSeq(chunk_header, 5, 8))
        subchunksize == size + (size % 2)   \* IFF chunks are padded to an even number of bytes
        at == w.pos + 8
        seen == [w EXCEPT !.chunks = Append(@, subchunkid)]
        r == IF subchunkid = <<102, 109, 116, 32>>                      \* fmt
             THEN LET h1 == ReadAt(data, at, 8)
                      h2 == ReadAt(data, at + 8, 8)
                      channels == UnpackLE(SubSeq(h1, 3, 4))
                      samplerate == UnpackLE(SubSeq(h1, 5, 8))
                      unpacked == UnpackLE(SubSeq(h2, 7, 8))
                      bitdepth == IF unpacked = 0 THEN 1 ELSE unpacked
                      remaining_size == subchunksize - 16
                  IN  IF Len(h1) # 8 \/ Len(h2) # 8
                      THEN [seen EXCEPT !.exc = "struct.error"]
                      ELSE [seen EXCEPT
                              !.bitrate = Rat(samplerate * channels * bitdepth, 1000),
                              !.channels = PyInt(channels),
                              !.samplerate = PyInt(samplerate),
                              !.bitdepth = PyInt(bitdepth),
                              !.pos = at + 16
                                      + (IF remaining_size > 0 THEN remaining_size ELSE 0)]
             ELSE IF subchunkid = <<100, 97, 116, 97>>                  \* data
             THEN IF w.channels # PyNone /\ w.samplerate # PyNone /\ w.bitdepth # PyNone
                  THEN IF w.channels.n = 0 \/ w.samplerate.n = 0
                       THEN [seen EXCEPT !.exc = "ZeroDivisionError"]
                       ELSE [seen EXCEPT
                               !.duration =
                                   RatDiv(RatDiv(Rat(subchunksize, w.channels.n),
                                                 RatInt(w.samplerate.n)),
                                          Rat(w.bitdepth.n, 8)),
                               !.pos = at + subchunksize]
                  ELSE [seen EXCEPT !.pos = at + subchunksize]
             ELSE IF subchunkid = <<76, 73, 83, 84>> /\ parse_tags      \* LIST
             THEN LET is_info == ReadAt(data, at, 4)
                      sub == ReadAt(data, at + 4, subchunksize - 4)
                  IN  IF is_info # <<73, 78, 70, 79>>     \* jump over non-INFO sections
                      THEN [seen EXCEPT !.pos = at + Len(is_info) + (subchunksize - 4)]
                      ELSE ParseInfo([seen EXCEPT !.pos = at + 4 + Len(sub)], sub, 0)
             ELSE IF subchunkid \in {<<105, 100, 51, 32>>, <<73, 68, 51, 32>>} /\ parse_tags
             THEN LET id3 == ParseId3v2At(data, at, TRUE)
                  IN  IF id3.exc # ""
                      THEN [seen EXCEPT !.exc = id3.exc, !.pos = id3.pos]
                      ELSE [seen EXCEPT !.tag = Update(@, id3.tag), !.pos = id3.pos]
             ELSE [seen EXCEPT !.pos = at + subchunksize]   \* some other chunk
    IN  IF r.exc # "" THEN [r EXCEPT !.pc = "done"]
        ELSE [r EXCEPT !.pc = IF Len(ReadAt(data, r.pos, 8)) = 8 THEN "chunk" ELSE "done"]

\* four bytes of an unsigned number, little-endian
LE32(n) == <<n % 256, (n \div 256) % 256, (n \div 65536) % 256, n \div 16777216>>

\* a chunk: id, size, payload, padded to an even number of bytes
Chunk(id, payload) ==
    id \o LE32(Len(payload)) \o payload \o (IF Len(payload) % 2 = 1 THEN <<0>> ELSE <<>>)

\* the fmt chunk of PCM audio
FmtChunk(channels, samplerate, bitdepth) ==
    Chunk(<<102, 109, 116, 32>>,
          <<1, 0, channels, 0>> \o LE32(samplerate)
              \o LE32((samplerate * channels * bitdepth) \div 8)
              \o <<(channels * bitdepth) \div 8, 0, bitdepth, 0>>)

\* LIST chunks: INFO with INAM 'Song'; INFO with IART 'Art', INAM 'Son', TITL
\* 'B', IPRT '3' and an id that is not mapped; a list that is no INFO list;
\* INFO with an INAM that is no UTF-8 text
ListChunk(info) ==
    Chunk(<<76, 73, 83, 84>>,
          CASE info = "song" ->
                  <<73, 78, 70, 79>> \o Chunk(<<73, 78, 65, 77>>, <<83, 111, 110, 103>>)
            [] info = "many" ->
                  <<73, 78, 70, 79>> \o Chunk(<<73, 65, 82, 84>>, <<65, 114, 116>>)
                      \o Chunk(<<73, 78, 65, 77>>, <<83, 111, 110>>)
                      \o Chunk(<<84, 73, 84, 76>>, <<66>>)
                      \o Chunk(<<73, 83, 70, 84>>, <<120>>)
                      \o Chunk(<<73, 80, 82, 84>>, <<51>>)
            [] info = "adtl" -> <<97, 100, 116, 108>> \o Zeros(4)
            [] info = "bad" ->
                  <<73, 78, 70, 79>> \o Chunk(<<73, 78, 65, 77>>, <<255, 254>>))

\* the chunk of the given kind of an input
WaveChunkBytes(in, kind) ==
    CASE kind = "fmt" -> FmtChunk(in.channels, in.samplerate, in.bitdepth)
      [] kind = "data" -> Chunk(<<100, 97, 116, 97>>, Zeros(in.datasize))
      [] kind = "LIST" -> ListChunk(in.info)
      [] kind = "id3" ->
            Chunk(<<105, 100, 51, 32>>,
                  Id3v2Stream([major |-> 3,
                               frames |-> <<[frame_id |-> "TPE1", content |-> Latin1(<<66>>)]>>,
                               padding |-> 0, extended |-> FALSE, after |-> "none",
                               magic |-> "ID3"]))
      [] kind = "junk" -> Chunk(<<74, 85, 78, 75>>, Zeros(3))

RECURSIVE WaveChunks(_, _)
WaveChunks(in, i) ==
    IF i > Len(in.order) THEN <<>>
    ELSE WaveChunkBytes(in, in.order[i]) \o WaveChunks(in, i + 1)

\* RIFF, the size of what follows, WAVE, the chunks
WaveStream(in) ==
    <<82, 73, 70, 70>> \o LE32(4 + Len(WaveChunks(in, 1))) \o <<87, 65, 86, 69>>
        \o WaveChunks(in, 1)

\* the chunks of a stream in their order: the LIST chunk before, between and
\* after fmt and data, no LIST chunk, data before fmt, an id3 chunk
WaveOrders ==
    { <<"fmt", "data">>, <<"LIST", "fmt", "data">>, <<"fmt", "LIST", "data">>,
      <<"fmt", "data", "LIST">>, <<"data", "fmt">>, <<"fmt", "data", "id3">>,
      <<"junk", "LIST", "id3", "fmt", "data">> }

\* streams of a few bytes of audio for every description of the audio, and
\* streams of one second of CD audio
WaveInputs ==
    [order : WaveOrders, channels : {0, 1, 2}, samplerate : {8000, 44100},
     bitdepth : {0, 8, 16}, datasize : {0, 3, 4}, info : {"song", "many", "adtl", "bad"},
     parse_tags : BOOLEAN]
    \cup [order : WaveOrders, channels : {2}, samplerate : {44100}, bitdepth : {16},
          datasize : {176400}, info : {"song"}, parse_tags : {TRUE}]

WaveInit ==
    wv = [pc |-> "idle", in |-> <<>>, pos |-> 0, tag |-> NewTag, channels |-> PyNone,
          samplerate |-> PyNone, bitdepth |-> PyNone, bitrate |-> Unset,
          duration |-> Unset, chunks |-> <<>>, exc |-> ""]

\* _Wave._parse_tag up to its loop
WaveCall ==
    /\ wv.pc = "idle"
    /\ \E in \in WaveInputs : wv' = WaveStart([wv EXCEPT !.in = in], WaveStream(in))
    /\ UNCHANGED notWave

\* one round of the loop of _Wave._parse_tag
WaveRound ==
    /\ wv.pc = "chunk"
    /\ wv' = WaveChunk(wv, WaveStream(wv.in), wv.in.parse_tags)
    /\ UNCHANGED notWave

WaveNext == WaveCall \/ WaveRound

(***************************************************************************)
(* Hand-off to a nested decoder: the id3 chunks of _Wave and _Aiff, the    *)
(* ID3v2 tag before fLaC of _Flac, the FLAC packet of _Ogg                 *)
(***************************************************************************)
\* the configuration of a new decoder object: TinyTag.__init__
NewDecoder(cls) ==
    [cls |-> cls, parse_tags |-> TRUE, parse_duration |-> TRUE, load_image |-> FALSE,
     default_encoding |-> "", ignore_errors |-> FALSE]

\* the first lines of TinyTag._load(tags, duration, image)
LoadFlags(d, tags, duration, image) ==
    [d EXCEPT !.parse_tags = tags, !.parse_duration = duration, !.load_image = image]

\* the decoder object TinyTag.get configures
Configured(cls, tags, duration, image, ignore_errors, encoding) ==
    LoadFlags([NewDecoder(cls) EXCEPT !.default_encoding = encoding,
                                      !.ignore_errors = ignore_errors],
              tags, duration, image)

\* Delegate with a slip: the nested decoder is told to load images whatever
\* the outer decoder was told
DelegateLoadsImages(self) ==
    CASE self.cls \in {"_Wave", "_Aiff"} ->
            LoadFlags(NewDecoder("_ID3"), TRUE, FALSE, TRUE)
      [] self.cls = "_Flac" ->
            [NewDecoder("_ID3") EXCEPT !.parse_tags = self.parse_tags,
                                       !.load_image = TRUE]
      [] self.cls = "_Ogg" ->
            LoadFlags(NewDecoder("_Flac"), self.parse_tags, self.parse_duration, TRUE)

\* the nested decoder as the parent sets it up
Delegate(self) ==
    CASE self.cls \in {"_Wave", "_Aiff"} ->
            LoadFlags(NewDecoder("_ID3"), TRUE, FALSE, self.load_image)
      [] self.cls = "_Flac" ->
            [NewDecoder("_ID3") EXCEPT !.parse_tags = self.parse_tags,
                                       !.load_image = self.load_image]
      [] self.cls = "_Ogg" ->
            LoadFlags(NewDecoder("_Flac"), self.parse_tags, self.parse_duration,
                      self.load_image)

\* bytestr.decode(encoding, errors) of single-byte text: below 128 every
\* encoding of the model gives the byte's code point; from 128 on ISO-8859-1
\* gives the code point of the byte, cp1251 gives the Cyrillic letter of the
\* byte (bytes 192 to 255 are U+0410 to U+044F), and UTF-8, which the byte
\* alone is not, raises UnicodeDecodeError or, with errors='ignore', drops the
\* byte
RECURSIVE Decode(_, _, _)
Decode(bytestr, encoding, ignore_errors) ==
    IF bytestr = <<>> THEN [ok |-> TRUE, s |-> <<>>]
    ELSE LET b == Head(bytestr)
             rest == Decode(Tail(bytestr), encoding, ignore_errors)
         IN  IF ~rest.ok THEN rest
             ELSE IF b < 128 \/ encoding = "ISO-8859-1"
             THEN [ok |-> TRUE, s |-> <<b>> \o rest.s]
             ELSE IF encoding = "cp1251"
             THEN [ok |-> TRUE, s |-> <<b + 848>> \o rest.s]
             ELSE IF ignore_errors THEN rest
             ELSE [ok |-> FALSE, s |-> <<>>]

\* _ID3._decode_string(bytestr) of a content with the encoding marker 0, by a
\* decoder with the configuration d
DecodeStringAs(d, bytestr) ==
    LET default_encoding ==
            IF d.default_encoding # "" THEN d.default_encoding ELSE "ISO-8859-1"
        r == Decode(Tail(bytestr), default_encoding, d.ignore_errors)
    IN  IF r.ok THEN [ok |-> TRUE, s |-> Unpad(r.s)] ELSE r

Containers == {"_Wave", "_Aiff", "_Flac", "_Ogg"}

Encodings == {"", "cp1251", "UTF-8"}

\* the texts of the title frame of the nested tag: 'A', and e with an acute
\* accent
NestedTexts == {<<65>>, <<233>>}

NestedInit ==
    ns = [pc |-> "idle", self |-> NewDecoder(""), nested |-> NewDecoder(""),
          text |-> <<>>, title |-> [ok |-> TRUE, s |-> <<>>]]

\* TinyTag.get with a stream of a container that holds a nested stream
NestedGet ==
    /\ ns.pc = "idle"
    /\ \E cls \in Containers, tags \in BOOLEAN, image \in BOOLEAN,
          ignore_errors \in BOOLEAN, encoding \in Encodings, text \in NestedTexts :
        ns' = [ns EXCEPT !.pc = "parse", !.text = text,
                         !.self = Configured(cls, tags, TRUE, image, ignore_errors, encoding)]
    /\ UNCHANGED notNested

\* the parent reaches the nested stream and hands it to a new decoder, which
\* decodes the title frame when it is an _ID3 that parses tags; _Wave and
\* _Aiff pass over an id3 chunk when tags are not asked for
NestedDelegate ==
    /\ ns.pc = "parse"
    /\ IF ns.self.cls \in {"_Wave", "_Aiff"} /\ ~ns.self.parse_tags
       THEN ns' = [ns EXCEPT !.pc = "skipped"]
       ELSE LET nested == Delegate(ns.self)
            IN  ns' = [ns EXCEPT !.pc = "delegated", !.nested = nested,
                                 !.title = IF nested.cls = "_ID3" /\ nested.parse_tags
                                           THEN DecodeStringAs(nested, Latin1(ns.text))
                                           ELSE @]
    /\ UNCHANGED notNested

NestedNext == NestedGet \/ NestedDelegate

(***************************************************************************)
(* MP4 atoms: _MP4._traverse_atoms                                         *)
(*                                                                         *)
(* The recursion is a stack of branches; each holds the node of the tree   *)
(* it walks, as the atom types from the root, and its stop_pos (0 for      *)
(* None).  A step is one round of the while loop of the innermost branch.  *)
(***************************************************************************)
\* struct.unpack('>I', four bytes) of sizes below 2^24
UnpackBE32(b) == ((b[1] * 256 + b[2]) * 256 + b[3]) * 256 + b[4]

A_moov == <<109, 111, 111, 118>>
A_udta == <<117, 100, 116, 97>>
A_meta == <<109, 101, 116, 97>>
A_ilst == <<105, 108, 115, 116>>
A_nam == <<169, 110, 97, 109>>
A_ART == <<169, 65, 82, 84>>
A_data == <<100, 97, 116, 97>>
A_trak == <<116, 114, 97, 107>>
A_mdia == <<109, 100, 105, 97>>
A_minf == <<109, 105, 110, 102>>
A_stbl == <<115, 116, 98, 108>>
A_stsd == <<115, 116, 115, 100>>
A_free == <<102, 114, 101, 101>>

VERSIONED_ATOMS == {A_meta, A_stsd}     \* those have an extra 4 byte header
FLAGGED_ATOMS == {A_stsd}               \* these also have an extra 4 byte header

\* path.get(atom_type) at the node of _MP4.META_DATA_TREE reached by the atom
\* types of node: "dict", the field of a data atom parser, or "" for None;
\* the items of the title and the artist stand for the items of the tree
META_DATA_TREE(node, atom_type) ==
    CASE node = <<>> /\ atom_type = A_moov -> "dict"
      [] node = <<A_moov>> /\ atom_type = A_udta -> "dict"
      [] node = <<A_moov, A_udta>> /\ atom_type = A_meta -> "dict"
      [] node = <<A_moov, A_udta, A_meta>> /\ atom_type = A_ilst -> "dict"
      [] node = <<A_moov, A_udta, A_meta, A_ilst>> /\ atom_type \in {A_nam, A_ART} -> "dict"
      [] node = <<A_moov, A_udta, A_meta, A_ilst, A_nam>> /\ atom_type = A_data -> "title"
      [] node = <<A_moov, A_udta, A_meta, A_ilst, A_ART>> /\ atom_type = A_data -> "artist"
      [] OTHER -> ""

\* the same for _MP4.AUDIO_DATA_TREE, without its three leaves
AUDIO_DATA_TREE(node, atom_type) ==
    CASE node = <<>> /\ atom_type = A_moov -> "dict"
      [] node = <<A_moov>> /\ atom_type = A_trak -> "dict"
      [] node = <<A_moov, A_trak>> /\ atom_type = A_mdia -> "dict"
      [] node = <<A_moov, A_trak, A_mdia>> /\ atom_type = A_minf -> "dict"
      [] node = <<A_moov, A_trak, A_mdia, A_minf>> /\ atom_type = A_stbl -> "dict"
      [] node = <<A_moov, A_trak, A_mdia, A_minf, A_stbl>> /\ atom_type = A_stsd -> "dict"
      [] OTHER -> ""

\* the callable _make_data_atom_parser(fieldname) returns, applied to a data
\* atom of type 1 (UTF-8, here of ASCII bytes); {} for a type without decoder
ParseDataAtom(fieldname, data_atom) ==
    IF UnpackBE32(SubSeq(data_atom, 1, 4)) = 1
    THEN <<[field |-> fieldname, value |-> PyStr(SubSeq(data_atom, 9, Len(data_atom)))]>>
    ELSE <<>>

\* the return of _traverse_atoms to its caller, and the caller's check of
\* its own stop_pos after the call, up to the branch that goes on
RECURSIVE BranchLeft(_)
BranchLeft(m) ==
    LET stack == SubSeq(m.stack, 1, Len(m.stack) - 1)
        left == [m EXCEPT !.stack = stack]
    IN  IF stack = <<>> THEN [left EXCEPT !.pc = "done"]
        ELSE IF stack[Len(stack)].stop_pos # 0 /\ m.pos >= stack[Len(stack)].stop_pos
        THEN BranchLeft(left)
        ELSE left

\* the end of a round: if stop_pos and fh.tell() >= stop_pos: return
RoundEnd(m) ==
    LET top == m.stack[Len(m.stack)]
    IN  IF top.stop_pos # 0 /\ m.pos >= top.stop_pos THEN BranchLeft(m) ELSE m

\* one round of the while loop of the innermost branch, with the read of
\* the atom header that opens it
TraverseAtom(m, data, tree, load_image) ==
    LET header_size == 8
        top == m.stack[Len(m.stack)]
        atom_header == ReadAt(data, m.pos, header_size)
        atom_size == UnpackBE32(SubSeq(atom_header, 1, 4)) - header_size
        atom_type == SubSeq(atom_header, 5, 8)
        read == [m EXCEPT !.reads = Append(@, [pos |-> m.pos, branch |-> top.id,
                                               end |-> top.end,
                                               size |-> IF Len(atom_header) = header_size
                                                        THEN atom_size ELSE 0,
                                               whole |-> Len(atom_header) = header_size])]
        at == m.pos + header_size
                + (IF atom_type \in VERSIONED_ATOMS THEN 4 ELSE 0)
                + (IF atom_type \in FLAGGED_ATOMS THEN 4 ELSE 0)
        sub_path == IF tree = "meta" THEN META_DATA_TREE(top.node, atom_type)
                    ELSE AUDIO_DATA_TREE(top.node, atom_type)
        content == ReadAt(data, at, atom_size)
    IN  IF Len(atom_header) # header_size THEN BranchLeft(read)
        ELSE IF atom_size <= 0                  \* empty atom, jump to next one
        THEN [read EXCEPT !.pos = m.pos + header_size]
        ELSE IF sub_path = "dict"
        THEN [read EXCEPT !.pos = at, !.branches = @ + 1,
                          !.stack = Append(@, [node |-> Append(top.node, atom_type),
                                               stop_pos |-> at + atom_size,
                                               id |-> m.branches + 1,
                                               end |-> m.pos + header_size + atom_size])]
        ELSE IF sub_path # ""
        THEN RoundEnd([read EXCEPT !.pos = at + Len(content),
                                   !.leaves = Append(@, m.pos),
                                   !.tag = TraverseLeaf(@, ParseDataAtom(sub_path, content),
                                                        load_image)])
        ELSE RoundEnd([read EXCEPT !.pos = at + atom_size])

\* four bytes of an unsigned number below 2^24, big-endian
BE32Size(n) == <<0, n \div 65536, (n \div 256) % 256, n % 256>>

\* an atom: size, type, payload
Atom(type, payload) == BE32Size(8 + Len(payload)) \o type \o payload

\* a data atom of type 1: type, locale, text
DataAtom(text) == Atom(A_data, <<0, 0, 0, 1>> \o Zeros(4) \o text)

MaxAtoms == 2       \* most children of the innermost container

\* the children of the innermost container: a title item, an artist item,
\* a free atom of 4 bytes, a free atom without payload, a header of size 0
ChildBytes(kind) ==
    CASE kind = "nam" -> Atom(A_nam, DataAtom(<<65>>))
      [] kind = "ART" -> Atom(A_ART, DataAtom(<<66>>))
      [] kind = "free" -> Atom(A_free, Zeros(4))
      [] kind = "empty" -> Atom(A_free, <<>>)
      [] kind = "zero" -> Zeros(4) \o A_free

RECURSIVE ChildrenBytes(_)
ChildrenBytes(kinds) ==
    IF kinds = <<>> THEN <<>> ELSE ChildBytes(Head(kinds)) \o ChildrenBytes(Tail(kinds))

\* what follows the moov atom: nothing, or a title item 'Z'
AfterMoov(after) ==
    IF after = "nam" THEN Atom(A_nam, DataAtom(<<90>>)) ELSE <<>>

Mp4Inputs ==
    [tree : {"meta", "audio"},
     children : SeqsUpTo({"nam", "ART", "free", "empty", "zero"}, MaxAtoms),
     after : {"none", "nam"}]

\* the stream of an input: for the tags moov > udta > meta > ilst, for the
\* duration moov > trak > mdia > minf > stbl > stsd, each around the children
Mp4Stream(in) ==
    (IF in.tree = "meta"
     THEN Atom(A_moov, Atom(A_udta, Atom(A_meta, Zeros(4) \o
            Atom(A_ilst, ChildrenBytes(in.children)))))
     ELSE Atom(A_moov, Atom(A_trak, Atom(A_mdia, Atom(A_minf, Atom(A_stbl,
            Atom(A_stsd, Zeros(8) \o ChildrenBytes(in.children))))))))
        \o AfterMoov(in.after)

Mp4Init ==
    m4 = [pc |-> "idle", in |-> <<>>, pos |-> 0, stack |-> <<>>, branches |-> 0,
          reads |-> <<>>, leaves |-> <<>>, tag |-> NewTag]

\* _MP4._parse_tag or _MP4._determine_duration: _traverse_atoms on the tree,
\* stop_pos = None
Mp4Call ==
    /\ m4.pc = "idle"
    /\ \E in \in Mp4Inputs :
        m4' = [m4 EXCEPT !.pc = "walk", !.in = in, !.branches = 1,
                         !.stack = <<[node |-> <<>>, stop_pos |-> 0, id |-> 1, end |-> 0]>>]
    /\ UNCHANGED notMp4

\* one round of the loop of the innermost _traverse_atoms
Mp4Atom ==
    /\ m4.pc = "walk"
    /\ m4' = TraverseAtom(m4, Mp4Stream(m4.in), m4.in.tree, FALSE)
    /\ UNCHANGED notMp4

Mp4Next == Mp4Call \/ Mp4Atom

(***************************************************************************)
(* Vorbis comments and pictures in bytes: _Ogg._parse_vorbis_comment and   *)
(* _Flac._parse_image on a stream                                          *)
(***************************************************************************)
\* struct.unpack('>I', four bytes)
BE32Of(b) == ((b[1] * 256 + b[2]) * 256 + b[3]) * 256 + b[4]

\* struct.unpack('I', four bytes)
LE32Of(b) == ((b[4] * 256 + b[3]) * 256 + b[2]) * 256 + b[1]

\* the last two reads of _Flac._parse_image, fh at offset p2 of data: the
\* five numbers and the picture
ImagePicture[data \in Seq(Nat), p2 \in Nat] ==
    LET dims == ReadAt(data, p2, 20)
        pic == ReadAt(data, p2 + 20, BE32Of(SubSeq(dims, 17, 20)))
    IN  IF Len(dims) < 20
        THEN [exc |-> "struct.error", image |-> <<>>, pos |-> p2 + Len(dims)]
        ELSE [exc |-> "", image |-> pic, pos |-> p2 + 20 + Len(pic)]

\* the reads of the description, fh at offset p1 of data
ImageDescription[data \in Seq(Nat), p1 \in Nat] ==
    LET dl == ReadAt(data, p1, 4)
    IN  IF Len(dl) < 4
        THEN [exc |-> "struct.error", image |-> <<>>, pos |-> p1 + Len(dl)]
        ELSE ImagePicture[data, p1 + 4 + BE32Of(dl)]

\* _Flac._parse_image(fh) with fh at offset pos of data: the picture bytes
\* and the offset behind them; a header read that the end of the data cuts
\* short makes struct.unpack raise
ParseImageOf[data \in Seq(Nat), pos \in Nat] ==
    LET head == ReadAt(data, pos, 8)
    IN  IF Len(head) < 8
        THEN [exc |-> "struct.error", image |-> <<>>, pos |-> pos + Len(head)]
        ELSE ImageDescription[data, pos + 8 + BE32Of(SubSeq(head, 5, 8))]

ParseImage(data, pos) == ParseImageOf[data, pos]

\* the value of a character of the base64 alphabet, -1 for any other
B64Value(c) ==
    IF c \in 65..90 THEN c - 65
    ELSE IF c \in 97..122 THEN c - 71
    ELSE IF c \in 48..57 THEN c + 4
    ELSE IF c = 43 THEN 62
    ELSE IF c = 47 THEN 63
    ELSE -1

\* base64.b64decode(value) of a value without padding characters whose
\* length is a multiple of 4; other values raise binascii.Error
B64DecodeOf[value \in Seq(Nat)] ==
    IF Len(value) % 4 # 0 \/ \E i \in DOMAIN value : B64Value(value[i]) = -1
    THEN [exc |-> "binascii.Error", bytes |-> <<>>]
    ELSE [exc |-> "",
          bytes |-> [k \in 1..((Len(value) \div 4) * 3) |->
                        LET q == ((k - 1) \div 3) * 4
                            n == ((B64Value(value[q + 1]) * 64 + B64Value(value[q + 2])) * 64
                                    + B64Value(value[q + 3])) * 64 + B64Value(value[q + 4])
                        IN  CASE (k - 1) % 3 = 0 -> n \div 65536
                              [] (k - 1) % 3 = 1 -> (n \div 256) % 256
                              [] (k - 1) % 3 = 2 -> n % 256]]

B64Decode(value) == B64DecodeOf[value]

\* the comment keys of the streams, in lower case, as bytes
K_title == <<116, 105, 116, 108, 101>>
K_artist == <<97, 114, 116, 105, 115, 116>>
K_tracknumber == <<116, 114, 97, 99, 107, 110, 117, 109, 98, 101, 114>>
K_composer == <<99, 111, 109, 112, 111, 115, 101, 114>>
K_metadata_block_picture ==
    <<109, 101, 116, 97, 100, 97, 116, 97, 95, 98, 108, 111, 99, 107, 95,
      112, 105, 99, 116, 117, 114, 101>>

\* the key of a comment as the str its bytes decode to
KeyNameOf[key_lowercase \in Seq(Nat)] ==
    CASE key_lowercase = K_title -> "title"
      [] key_lowercase = K_artist -> "artist"
      [] key_lowercase = K_tracknumber -> "tracknumber"
      [] key_lowercase = K_composer -> "composer"
      [] key_lowercase = K_metadata_block_picture -> "metadata_block_picture"
      [] OTHER -> "other"

KeyName(key_lowercase) == KeyNameOf[key_lowercase]

\* a decoder's picture attribute: _image_data is None
NoImage == [set |-> FALSE, bytes |-> <<>>]

Images == [set : BOOLEAN, bytes : Seq(Nat)]

\* the record, the picture, the offset and the exception of a comment pass
CommentPasses == [tag : TagRecords, image : Images, pos : Nat, exc : STRING]

\* the picture of a metadata_block_picture comment: _Flac._parse_image on
\* the bytes that base64.b64decode gives
Decodings == [exc : STRING, bytes : Seq(Nat)]

CommentPicture[c \in CommentPasses, decoded \in Decodings] ==
    IF decoded.exc # "" THEN [c EXCEPT !.exc = decoded.exc]
    ELSE IF ParseImage(decoded.bytes, 0).exc # ""
    THEN [c EXCEPT !.exc = ParseImage(decoded.bytes, 0).exc]
    ELSE [c EXCEPT !.image = [set |-> TRUE, bytes |-> ParseImage(decoded.bytes, 0).image]]

\* the body of the for loop on the keyvalpair read and decoded
CommentPair[c \in CommentPasses, keyvalpair \in Seq(Nat), load_image \in BOOLEAN] ==
    LET eq == IndexOf(keyvalpair, 61)
        key_lowercase == LowerAscii(SubSeq(keyvalpair, 1, eq - 1))
        value == SubSeq(keyvalpair, eq + 1, Len(keyvalpair))
    IN  IF eq = 0 THEN c
        ELSE IF KeyName(key_lowercase) = "metadata_block_picture" /\ load_image
        THEN CommentPicture[c, B64Decode(value)]
        ELSE [c EXCEPT
                !.tag = ParseVorbisComment(@, <<[key |-> KeyName(key_lowercase),
                                                 value |-> value]>>)]

\* one round of the for loop of _parse_vorbis_comment, fh at offset c.pos
VorbisElementOf[c \in CommentPasses, data \in Seq(Nat), load_image \in BOOLEAN] ==
    LET lb == ReadAt(data, c.pos, 4)
        keyvalpair == ReadAt(data, c.pos + 4, LE32Of(lb))
        after == [c EXCEPT !.pos = c.pos + 4 + Len(keyvalpair)]
    IN  IF Len(lb) < 4 THEN [c EXCEPT !.exc = "struct.error"]
        \* UnicodeDecodeError: continue
        ELSE IF \E i \in DOMAIN keyvalpair : keyvalpair[i] >= 128 THEN after
        ELSE CommentPair[after, keyvalpair, load_image]

VorbisElement(c, data, load_image) == VorbisElementOf[c, data, load_image]

VorbisElementsOf[c \in CommentPasses, data \in Seq(Nat), load_image \in BOOLEAN, elements \in Nat] ==
    IF elements = 0 \/ c.exc # "" THEN c
    ELSE VorbisElementsOf[VorbisElement(c, data, load_image), data, load_image, elements - 1]

VorbisElements(c, data, load_image, elements) ==
    VorbisElementsOf[c, data, load_image, elements]

\* self._parse_vorbis_comment(fh, contains_vendor) with fh at offset pos of
\* data, for the record tg and the picture image of self: the record, the
\* picture, the offset fh is left at and the exception raised
VorbisCommentAtOf[tg \in TagRecords, image \in Images, data \in Seq(Nat), pos \in Nat, contains_vendor \in BOOLEAN, load_image \in BOOLEAN] ==
    LET vl == ReadAt(data, pos, 4)
        p1 == IF contains_vendor THEN pos + 4 + LE32Of(vl) ELSE pos   \* jump over vendor
        eb == ReadAt(data, p1, 4)
        start == [tag |-> tg, image |-> image, pos |-> p1 + 4, exc |-> ""]
    IN  IF (contains_vendor /\ Len(vl) < 4) \/ Len(eb) < 4
        THEN [start EXCEPT !.pos = pos, !.exc = "struct.error"]
        ELSE VorbisElements(start, data, load_image, LE32Of(eb))

VorbisCommentAt(tg, image, data, pos, contains_vendor, load_image) ==
    VorbisCommentAtOf[tg, image, data, pos, contains_vendor, load_image]

(***************************************************************************)
(* The FLAC metadata blocks: the loop of _Flac._parse_tag                  *)
(***************************************************************************)
METADATA_STREAMINFO == 0
METADATA_VORBIS_COMMENT == 4
METADATA_PICTURE == 6

\* the key '_image_data' of TinyTag._update: a picture that is not empty
\* replaces the one held
UpdateImage(image, other) == IF other.set /\ other.bytes # <<>> THEN other ELSE image

\* the notes of the loop on a header, and the decoder with its stream
BlockNotes ==
    [start : Nat, block_type : Nat, is_last_block : BOOLEAN, size : Nat,
     branch : STRING, pos : Nat]

FlacStates ==
    [pc : STRING, data : Seq(Nat), pos : Nat, start : Nat, filesize : Nat,
     parse_tags : BOOLEAN, parse_duration : BOOLEAN, load_image : BOOLEAN,
     tag : TagRecords, image : Images, samplerate : Nat, channels : Nat,
     bitdepth : Nat, total_samples : Nat, duration : Fractions, bitrate : Fractions,
     exc : STRING, blocks : Seq(BlockNotes)]

\* the elif chain with a slip: the test of the invalid type is left out
FlacBranchSkipsInvalid(f, block_type) ==
    IF block_type = METADATA_STREAMINFO /\ f.parse_duration THEN "streaminfo"
    ELSE IF block_type = METADATA_VORBIS_COMMENT /\ f.parse_tags THEN "vorbis_comment"
    ELSE IF block_type = METADATA_PICTURE /\ f.load_image THEN "picture"
    ELSE "seek"

\* the elif chain of the loop on the header at f.start
FlacBranch(f, block_type) ==
    IF block_type = METADATA_STREAMINFO /\ f.parse_duration THEN "streaminfo"
    ELSE IF block_type = METADATA_VORBIS_COMMENT /\ f.parse_tags THEN "vorbis_comment"
    ELSE IF block_type = METADATA_PICTURE /\ f.load_image THEN "picture"
    ELSE IF block_type >= 127 THEN "invalid"
    ELSE "seek"

\* the VORBIS_COMMENT branch: self._update(oggtag) after the comment pass
FlacCommentOf[f \in FlacStates, oggtag \in CommentPasses] ==
    IF oggtag.exc # ""
    THEN [f EXCEPT !.exc = oggtag.exc, !.pos = oggtag.pos]
    ELSE [f EXCEPT !.tag = Update(@, oggtag.tag),
                   !.image = UpdateImage(@, oggtag.image),
                   !.pos = oggtag.pos]

\* the branch taken for the header at f.start, fh left at pos
FlacDecodeOf[f \in FlacStates] ==
    LET header_data == ReadAt(f.data, f.start, 4)
        size == BytesToInt(SubSeq(header_data, 2, 4))
        body == f.start + 4
        stream_info_header == ReadAt(f.data, body, size)
        picture == ParseImage(f.data, body)
        branch == FlacBranch(f, header_data[1] % 128)
    IN  CASE branch = "streaminfo" ->
                IF Len(stream_info_header) < 34
                THEN [f EXCEPT !.pc = "done", !.pos = body + Len(stream_info_header)]
                ELSE [ParseStreamInfo(f, stream_info_header) EXCEPT
                        !.pos = body + Len(stream_info_header)]
          [] branch = "vorbis_comment" ->
                FlacCommentOf[f, VorbisCommentAt(NewTag, NoImage, f.data, body, TRUE,
                                                 f.load_image)]
          [] branch = "picture" ->
                IF picture.exc # ""
                THEN [f EXCEPT !.exc = picture.exc, !.pos = body]
                ELSE [f EXCEPT !.image = [set |-> TRUE, bytes |-> picture.image],
                               !.pos = picture.pos]
          [] branch = "invalid" -> [f EXCEPT !.pc = "done", !.pos = body]
          [] branch = "seek" -> [f EXCEPT !.pos = body + size]

\* the end of a round: an exception or a break leaves the loop, and so does
\* the flag of the last block; f.blocks lists, for every header read in full,
\* its offset, type, flag, size, the branch taken and the offset fh is left at
FlacRoundEndOf[f \in FlacStates, decoded \in FlacStates] ==
    LET header_data == ReadAt(f.data, f.start, 4)
        block_type == header_data[1] % 128
        is_last_block == header_data[1] >= 128
        noted == [decoded EXCEPT !.blocks =
                    Append(@, [start |-> f.start, block_type |-> block_type,
                               is_last_block |-> is_last_block,
                               size |-> BytesToInt(SubSeq(header_data, 2, 4)),
                               branch |-> FlacBranch(f, block_type),
                               pos |-> decoded.pos])]
    IN  IF decoded.exc # "" \/ decoded.pc = "done" \/ is_last_block
        THEN [noted EXCEPT !.pc = "done"]
        ELSE [noted EXCEPT !.start = decoded.pos]

\* one round of the while loop of _Flac._parse_tag: f.start is the offset of
\* header_data
FlacBlockAt(f) ==
    IF Len(ReadAt(f.data, f.start, 4)) # 4
    THEN [f EXCEPT !.pc = "done", !.pos = f.start + Len(ReadAt(f.data, f.start, 4))]
    ELSE FlacRoundEndOf[f, FlacDecodeOf[f]]

\* the lines of _Flac._parse_tag before the loop, for a stream without an ID3
\* header: the four bytes read have to be fLaC
FlacOpen(f) ==
    IF ReadAt(f.data, f.pos, 4) # <<102, 76, 97, 67>>
    THEN [f EXCEPT !.pc = "done", !.exc = "TinyTagException",
                   !.pos = f.pos + Len(ReadAt(f.data, f.pos, 4))]
    ELSE [f EXCEPT !.pc = "block", !.start = f.pos + 4, !.pos = f.pos + 4]

\* a _Flac() on the stream data at offset pos, with the arguments of _load
NewFlac(data, pos, filesize, parse_tags, parse_duration, load_image) ==
    [pc |-> "open", data |-> data, pos |-> pos, start |-> pos, filesize |-> filesize,
     parse_tags |-> parse_tags, parse_duration |-> parse_duration,
     load_image |-> load_image, tag |-> NewTag, image |-> NoImage,
     samplerate |-> 0, channels |-> 0, bitdepth |-> 0, total_samples |-> 0,
     duration |-> Unset, bitrate |-> Unset, exc |-> "", blocks |-> <<>>]

\* the blocks of the streams: the header with the type, the flag and the
\* declared size, then the body
FlacBlockBytes(block_type, is_last_block, size, body) ==
    <<block_type + (IF is_last_block THEN 128 ELSE 0), size \div 65536,
      (size \div 256) % 256, size % 256>> \o body

\* a comment block body: a vendor of two bytes and the elements
VorbisBody(pairs) ==
    LET RECURSIVE El(_)
        El(ps) == IF ps = <<>> THEN <<>>
                  ELSE LE32(Len(ps[1])) \o ps[1] \o El(Tail(ps))
    IN  LE32(2) \o <<120, 121>> \o LE32(Len(pairs)) \o El(pairs)

\* title=A
TitleA == K_title \o <<61, 65>>

\* a picture block body: type 3, mime 'a/b', no description, the picture
PictureBody(pic) ==
    BE32(3) \o BE32(3) \o <<97, 47, 98>> \o BE32(0) \o Zeros(16) \o BE32(Len(pic)) \o pic

PictureBytes == <<137, 80, 78, 71>>

\* a STREAMINFO body: 44100 Hz, 2 channels, 16 bits, 88200 samples
StreamInfoBody == Zeros(10) \o <<10, 196, 66, 240, 0, 1, 88, 136>> \o Zeros(16)

\* the kinds of block of the streams: type, declared size, body
FlacBlockKinds ==
    {[block_type |-> METADATA_STREAMINFO, size |-> 34, body |-> StreamInfoBody],
     [block_type |-> METADATA_VORBIS_COMMENT, size |-> Len(VorbisBody(<<TitleA>>)),
      body |-> VorbisBody(<<TitleA>>)],
     [block_type |-> METADATA_PICTURE, size |-> Len(PictureBody(PictureBytes)),
      body |-> PictureBody(PictureBytes)],
     [block_type |-> 1, size |-> 2, body |-> <<0, 0>>],
     [block_type |-> 9, size |-> 3, body |-> <<1, 2, 3>>],
     [block_type |-> 127, size |-> 1, body |-> <<7>>]}

\* the most blocks of a stream
MaxBlocks == 2

\* the streams: fLaC and up to MaxBlocks blocks, the flag of the last block on
\* one of them or on none
RECURSIVE FlacBlocksBytes(_, _, _)
FlacBlocksBytes(kinds, flagged, i) ==
    IF i > Len(kinds) THEN <<>>
    ELSE FlacBlockBytes(kinds[i].block_type, i = flagged, kinds[i].size, kinds[i].body)
            \o FlacBlocksBytes(kinds, flagged, i + 1)

FlacBlockStreams ==
    {<<102, 76, 97, 67>> \o FlacBlocksBytes(kinds, flagged, 1) :
        kinds \in UNION {[1..n -> FlacBlockKinds] : n \in 1..MaxBlocks},
        flagged \in 0..MaxBlocks}

FlacBlocksInit == fb = NewFlac(<<>>, 0, 0, FALSE, FALSE, FALSE)

\* _Flac._load(tags, duration, image) to the first header of the loop; with
\* neither tags nor duration asked for, _parse_tag does not run
FlacBlocksCall ==
    /\ fb.pc = "open" /\ fb.data = <<>>
    /\ \E data \in FlacBlockStreams, parse_tags, parse_duration, load_image \in BOOLEAN :
        /\ parse_tags \/ parse_duration
        /\ fb' = FlacOpen(NewFlac(data, 0, Len(data), parse_tags, parse_duration, load_image))
    /\ UNCHANGED notFlacBlocks

\* one round of the loop
FlacBlock ==
    /\ fb.pc = "block"
    /\ fb' = FlacBlockAt(fb)
    /\ UNCHANGED notFlacBlocks

FlacBlocksNext == FlacBlocksCall \/ FlacBlock

(***************************************************************************)
(* The Ogg packets: the loop of _Ogg._parse_tag over the packets that      *)
(* _parse_pages yields                                                     *)
(***************************************************************************)
\* struct.unpack('<i', four bytes)
SignedLE32(b) ==
    IF b[4] >= 128
    THEN (((b[4] - 256) * 256 + b[3]) * 256 + b[2]) * 256 + b[1]
    ELSE LE32Of(b)

\* the loop of _Flac._parse_tag run to its end
FlacRunOf[f \in FlacStates] == IF f.pc = "block" THEN FlacRunOf[FlacBlockAt(f)] ELSE f

\* flactag._load(tags, duration, image) of a _Flac() on data at offset pos:
\* _parse_tag runs once when tags or the duration are asked for
FlacLoad(data, pos, filesize, parse_tags, parse_duration, load_image) ==
    IF parse_tags \/ parse_duration
    THEN FlacRunOf[FlacOpen(NewFlac(data, pos, filesize, parse_tags, parse_duration,
                                    load_image))]
    ELSE [NewFlac(data, pos, filesize, parse_tags, parse_duration, load_image)
            EXCEPT !.pc = "done"]

\* the decoder of the Ogg packets with its stream
OggTagStates ==
    [pc : STRING, packets : Seq(Seq(Nat)), i : Nat, filesize : Nat,
     parse_tags : BOOLEAN, parse_duration : BOOLEAN, load_image : BOOLEAN,
     check_flac_second_packet : BOOLEAN, check_speex_second_packet : BOOLEAN,
     tag : TagRecords, image : Images, samplerate : Int, channels : Int,
     bitdepth : Nat, duration : Fractions, bitrate : Fractions, exc : STRING,
     handled : Seq(STRING)]

\* the prefixes that _parse_tag tests
P_vorbis1 == <<1, 118, 111, 114, 98, 105, 115>>
P_vorbis3 == <<3, 118, 111, 114, 98, 105, 115>>
P_OpusHead == <<79, 112, 117, 115, 72, 101, 97, 100>>
P_OpusTags == <<79, 112, 117, 115, 84, 97, 103, 115>>
P_FLAC == <<127, 70, 76, 65, 67>>
P_Speex == <<83, 112, 101, 101, 120, 32, 32, 32>>

\* the branch of the elif chain for a packet
PacketBranchOf[packet \in Seq(Nat), check_flac_second_packet \in BOOLEAN, check_speex_second_packet \in BOOLEAN] ==
    IF Sub(packet, 1, 7) = P_vorbis1 THEN "vorbis ident"
    ELSE IF Sub(packet, 1, 7) = P_vorbis3 THEN "vorbis comment"
    ELSE IF Sub(packet, 1, 8) = P_OpusHead THEN "OpusHead"
    ELSE IF Sub(packet, 1, 8) = P_OpusTags THEN "OpusTags"
    ELSE IF Sub(packet, 1, 5) = P_FLAC THEN "FLAC header"
    ELSE IF check_flac_second_packet THEN "FLAC metadata"
    ELSE IF Sub(packet, 1, 8) = P_Speex THEN "Speex header"
    ELSE IF check_speex_second_packet THEN "Speex comment"
    ELSE "break"

PacketBranch(packet, check_flac_second_packet, check_speex_second_packet) ==
    PacketBranchOf[packet, check_flac_second_packet, check_speex_second_packet]

\* a comment pass on the packet from offset pos, written into the decoder
OggCommentOf[o \in OggTagStates, c \in CommentPasses] ==
    [o EXCEPT !.tag = c.tag, !.image = c.image, !.exc = c.exc]

\* self._update(flactag)
OggUpdateOf[o \in OggTagStates, flactag \in FlacStates] ==
    IF flactag.exc # "" THEN [o EXCEPT !.exc = flactag.exc]
    ELSE [o EXCEPT !.tag = Update(@, flactag.tag),
                   !.image = UpdateImage(@, flactag.image),
                   !.duration = IF flactag.duration.num # 0 THEN flactag.duration ELSE @,
                   !.bitrate = IF flactag.bitrate.num # 0 THEN flactag.bitrate ELSE @,
                   !.bitdepth = IF flactag.bitdepth # 0 THEN flactag.bitdepth ELSE @,
                   !.channels = IF flactag.channels # 0 THEN flactag.channels ELSE @,
                   !.samplerate = IF flactag.samplerate # 0 THEN flactag.samplerate ELSE @]

\* the branch of the Speex comment packet when the tags are asked for: the
\* comment string, then the other tags
SpeexComment(o, packet) ==
    LET lb == ReadAt(packet, 0, 4)
        comment == ReadAt(packet, 4, LE32Of(lb))
    IN  IF Len(lb) < 4 THEN [o EXCEPT !.exc = "struct.error"]
        ELSE IF \E i \in DOMAIN comment : comment[i] >= 128
        THEN [o EXCEPT !.exc = "UnicodeDecodeError"]
        ELSE OggCommentOf[o, VorbisCommentAt(SetField(o.tag, "comment", PyStr(comment)),
                                             o.image, packet, 4 + Len(comment), FALSE,
                                             o.load_image)]

\* the body of the for loop on a packet, by the branch taken
OggPacketOf[o \in OggTagStates, packet \in Seq(Nat), branch \in STRING] ==
    CASE branch = "vorbis ident" ->
            IF ~o.parse_duration THEN o
            ELSE IF Len(Sub(packet, 12, 28)) < 17 THEN [o EXCEPT !.exc = "struct.error"]
            ELSE [o EXCEPT !.channels = packet[12],
                           !.samplerate = SignedLE32(SubSeq(packet, 13, 16)),
                           !.bitrate = Rat(SignedLE32(SubSeq(packet, 21, 24)), 1000)]
      [] branch = "vorbis comment" ->
            IF ~o.parse_tags THEN o
            ELSE OggCommentOf[o, VorbisCommentAt(o.tag, o.image, packet, 7, TRUE, o.load_image)]
      [] branch = "OpusHead" ->
            IF ~o.parse_duration THEN o
            ELSE IF Len(ReadAt(packet, 8, 11)) < 11 THEN [o EXCEPT !.exc = "struct.error"]
            ELSE IF packet[9] \div 16 = 0       \* only major version 0 supported
            THEN [o EXCEPT !.channels = packet[10], !.samplerate = 48000]
            ELSE o
      [] branch = "OpusTags" ->
            IF ~o.parse_tags THEN o
            ELSE OggCommentOf[o, VorbisCommentAt(o.tag, o.image, packet, 8, TRUE, o.load_image)]
      [] branch = "FLAC header" ->
            [OggUpdateOf[o, FlacLoad(packet, 9, o.filesize, o.parse_tags, o.parse_duration,
                                     o.load_image)]
                EXCEPT !.check_flac_second_packet = TRUE]
      [] branch = "FLAC metadata" ->
            \* second packet contains FLAC metadata block
            IF ~o.parse_tags THEN [o EXCEPT !.check_flac_second_packet = FALSE]
            ELSE IF Len(ReadAt(packet, 0, 4)) < 4 THEN [o EXCEPT !.exc = "struct.error"]
            ELSE IF packet[1] % 128 = METADATA_VORBIS_COMMENT
            THEN [OggCommentOf[o, VorbisCommentAt(o.tag, o.image, packet, 4, TRUE,
                                                  o.load_image)]
                    EXCEPT !.check_flac_second_packet = FALSE]
            ELSE [o EXCEPT !.check_flac_second_packet = FALSE]
      [] branch = "Speex header" ->
            IF ~o.parse_duration THEN [o EXCEPT !.check_speex_second_packet = TRUE]
            ELSE IF Len(ReadAt(packet, 36, 20)) < 20 THEN [o EXCEPT !.exc = "struct.error"]
            ELSE [o EXCEPT !.samplerate = SignedLE32(SubSeq(packet, 37, 40)),
                           !.channels = SignedLE32(SubSeq(packet, 49, 52)),
                           !.bitrate = RatInt(SignedLE32(SubSeq(packet, 53, 56))),
                           !.check_speex_second_packet = TRUE]
      [] branch = "Speex comment" ->
            IF ~o.parse_tags THEN [o EXCEPT !.check_speex_second_packet = FALSE]
            ELSE [SpeexComment(o, packet) EXCEPT !.check_speex_second_packet = FALSE]
      [] branch = "break" -> o

\* one round of the for loop: o.handled lists the branch of every packet the
\* loop took from the generator; an exception and the break leave the loop,
\* and so does the end of the packets
OggRoundEndOf[o \in OggTagStates, after \in OggTagStates, branch \in STRING] ==
    LET noted == [after EXCEPT !.handled = Append(@, branch), !.i = o.i + 1]
    IN  IF after.exc # "" \/ branch = "break" \/ o.i = Len(o.packets)
        THEN [noted EXCEPT !.pc = "done"]
        ELSE noted

OggPacketAt(o) ==
    LET packet == o.packets[o.i]
        branch == PacketBranch(packet, o.check_flac_second_packet,
                               o.check_speex_second_packet)
    IN  OggRoundEndOf[o, OggPacketOf[o, packet, branch], branch]

\* an _Ogg() at the start of _parse_tag, after _load has stored its arguments
NewOgg(packets, filesize, parse_tags, parse_duration, load_image) ==
    [pc |-> IF packets = <<>> THEN "done" ELSE "packet", packets |-> packets, i |-> 1,
     filesize |-> filesize, parse_tags |-> parse_tags, parse_duration |-> parse_duration,
     load_image |-> load_image, check_flac_second_packet |-> FALSE,
     check_speex_second_packet |-> FALSE, tag |-> NewTag, image |-> NoImage,
     samplerate |-> 0, channels |-> 0, bitdepth |-> 0, duration |-> Unset,
     bitrate |-> Unset, exc |-> "", handled |-> <<>>]

\* the character of the base64 alphabet for a value
B64Char(v) ==
    IF v < 26 THEN v + 65
    ELSE IF v < 52 THEN v + 71
    ELSE IF v < 62 THEN v - 4
    ELSE IF v = 62 THEN 43
    ELSE 47

\* base64.b64encode of bytes whose number is a multiple of 3
B64Encode(b) ==
    [k \in 1..((Len(b) \div 3) * 4) |->
        LET q == ((k - 1) \div 4) * 3
            n == (b[q + 1] * 256 + b[q + 2]) * 256 + b[q + 3]
        IN  B64Char(CASE (k - 1) % 4 = 0 -> n \div 262144
                      [] (k - 1) % 4 = 1 -> (n \div 4096) % 64
                      [] (k - 1) % 4 = 2 -> (n \div 64) % 64
                      [] (k - 1) % 4 = 3 -> n % 64)]

\* metadata_block_picture=<the picture block in base64>
PictureComment == K_metadata_block_picture \o <<61>> \o B64Encode(PictureBody(PictureBytes))

\* artist=B
ArtistB == K_artist \o <<61, 66>>

\* the packets of the streams
VorbisIdentPacket ==
    P_vorbis1 \o Zeros(4) \o <<2>> \o LE32(44100) \o LE32(0) \o LE32(128000) \o LE32(0)
        \o <<184, 1>>

VorbisCommentPacket == P_vorbis3 \o VorbisBody(<<TitleA, PictureComment>>)

OpusHeadPacket == P_OpusHead \o <<1, 2, 0, 0>> \o LE32(48000) \o <<0, 0, 0>>

OpusTagsPacket == P_OpusTags \o VorbisBody(<<ArtistB>>)

FlacHeaderPacket ==
    P_FLAC \o <<1, 0, 0, 2>> \o <<102, 76, 97, 67>>
        \o FlacBlockBytes(METADATA_STREAMINFO, FALSE, 34, StreamInfoBody)
        \o FlacBlockBytes(METADATA_PICTURE, TRUE, Len(PictureBody(PictureBytes)),
                          PictureBody(PictureBytes))

SpeexHeaderPacket ==
    P_Speex \o Zeros(28) \o LE32(16000) \o LE32(1) \o LE32(4) \o LE32(1) \o LE32(24600)
        \o Zeros(24)

\* a packet without a prefix that _parse_tag tests: a FLAC comment block with
\* an empty vendor and title=A, which is as well a Speex comment packet with
\* a comment string of four bytes and title=A
OtherPacket == <<4, 0, 0, 0>> \o LE32(0) \o LE32(1) \o LE32(Len(TitleA)) \o TitleA

\* a packet without such a prefix that is shorter than four bytes
ShortPacket == <<1, 2>>

PacketKinds ==
    {VorbisIdentPacket, VorbisCommentPacket, OpusHeadPacket, OpusTagsPacket,
     FlacHeaderPacket, SpeexHeaderPacket, OtherPacket, ShortPacket}

\* the most packets of a stream
MaxPackets == 4

\* every packet on a page of its own: 27 bytes of header and a segment table
\* of one byte
RECURSIVE PagesSize(_)
PagesSize(packets) ==
    IF packets = <<>> THEN 0 ELSE 28 + Len(Head(packets)) + PagesSize(Tail(packets))

OggTagInit == ot = NewOgg(<<>>, 0, FALSE, FALSE, FALSE)

\* _Ogg._load(tags, duration, image) to the first packet of _parse_tag, which
\* runs for the tags, and for the duration when it has not run for the tags
OggTagCall ==
    /\ ot.pc = "done" /\ ot.packets = <<>>
    /\ \E packets \in UNION {[1..n -> PacketKinds] : n \in 1..MaxPackets},
          parse_tags, parse_duration, load_image \in BOOLEAN :
        /\ parse_tags \/ parse_duration
        /\ ot' = NewOgg(packets, PagesSize(packets), parse_tags, parse_duration, load_image)
    /\ UNCHANGED notOggTag

\* one round of the for loop
OggPacket ==
    /\ ot.pc = "packet"
    /\ ot' = OggPacketAt(ot)
    /\ UNCHANGED notOggTag

OggTagNext == OggTagCall \/ OggPacket

(***************************************************************************)
(* WMA: the object loop of _Wma._parse_tag                                 *)
(***************************************************************************)
ASF_CONTENT_DESCRIPTION_OBJECT ==
    <<51, 38, 178, 117, 142, 102, 207, 17, 166, 217, 0, 170, 0, 98, 206, 108>>

ASF_EXTENDED_CONTENT_DESCRIPTION_OBJECT ==
    <<64, 164, 208, 210, 7, 227, 210, 17, 151, 240, 0, 160, 201, 94, 168, 80>>

ASF_FILE_PROPERTY_OBJECT ==
    <<161, 220, 171, 140, 71, 169, 207, 17, 142, 228, 0, 192, 12, 32, 83, 101>>

ASF_STREAM_PROPERTIES_OBJECT ==
    <<145, 7, 220, 183, 183, 169, 207, 17, 142, 230, 0, 192, 12, 32, 83, 101>>

STREAM_TYPE_ASF_AUDIO_MEDIA ==
    <<64, 158, 105, 248, 77, 91, 207, 17, 168, 253, 0, 128, 95, 92, 68, 43>>

\* the names of _Wma._parse_tag's mapping that the model uses
N_TrackNumber == <<87, 77, 47, 84, 114, 97, 99, 107, 78, 117, 109, 98, 101, 114>>
N_AlbumTitle == <<87, 77, 47, 65, 108, 98, 117, 109, 84, 105, 116, 108, 101>>
N_Composer == <<87, 77, 47, 67, 111, 109, 112, 111, 115, 101, 114>>

\* TinyTag._bytes_to_int_le(b): '<B', '<H', '<I' or '<Q' by the length of b,
\* 0 for any other length
BytesToIntLE(b) == IF Len(b) \in {1, 2, 4, 8} THEN LEValueOf[b] ELSE 0

\* the offset of fh after fh.read(n) at offset pos
After(data, pos, n) == pos + Len(ReadAt(data, pos, n))

\* bytestring.decode('utf-16') of code units outside the surrogates: a byte
\* order mark is taken off and selects the order, little endian without one;
\* a half code unit at the end raises UnicodeDecodeError
Utf16Of[b \in Seq(Nat)] ==
    LET units(big) ==
            [i \in 1..(Len(b) \div 2) |->
                IF big THEN b[2 * i - 1] * 256 + b[2 * i] ELSE b[2 * i - 1] + 256 * b[2 * i]]
    IN  IF Len(b) % 2 = 1 THEN [exc |-> "UnicodeDecodeError", s |-> <<>>]
        ELSE IF Sub(b, 1, 2) = <<255, 254>> THEN [exc |-> "", s |-> Tail(units(FALSE))]
        ELSE IF Sub(b, 1, 2) = <<254, 255>> THEN [exc |-> "", s |-> Tail(units(TRUE))]
        ELSE [exc |-> "", s |-> units(FALSE)]

\* _Wma._decode_string(bytestring)
WmaDecodeString(bytestring) ==
    [exc |-> Utf16Of[bytestring].exc, s |-> Unpad(Utf16Of[bytestring].s)]

\* the decoder of the objects with its stream: began, size and branch are
\* those of the object handled last
WmaStates ==
    [pc : STRING, data : Seq(Nat), pos : Nat, filesize : Nat, parse_tags : BOOLEAN,
     tag : TagRecords, duration : Fractions, bitrate : Fractions, samplerate : Nat,
     bitdepth : Nat, exc : STRING, began : Nat, read : Nat, size : Nat, branch : STRING]

\* the if / elif chain of the loop
WmaBranch(object_id, parse_tags) ==
    IF object_id = ASF_CONTENT_DESCRIPTION_OBJECT /\ parse_tags THEN "content description"
    ELSE IF object_id = ASF_EXTENDED_CONTENT_DESCRIPTION_OBJECT /\ parse_tags
    THEN "extended content description"
    ELSE IF object_id = ASF_FILE_PROPERTY_OBJECT THEN "file property"
    ELSE IF object_id = ASF_STREAM_PROPERTIES_OBJECT THEN "stream properties"
    ELSE "unknown"

\* the for loop of the content description: the blocks title, artist and
\* comment are decoded and written, _copyright and _rating are read over
WmaDataBlocksOf[w \in WmaStates, lengths \in Seq(Nat), k \in Nat] ==
    LET bytestring == ReadAt(w.data, w.pos, lengths[k])
        decoded == WmaDecodeString(bytestring)
        i_field_name == <<"title", "artist", "_copyright", "comment", "_rating">>[k]
        read == [w EXCEPT !.pos = w.pos + Len(bytestring)]
    IN  IF k > Len(lengths) THEN w
        ELSE IF k \in {3, 5} THEN WmaDataBlocksOf[read, lengths, k + 1]
        ELSE IF decoded.exc # "" THEN [read EXCEPT !.exc = decoded.exc]
        ELSE WmaDataBlocksOf[[read EXCEPT !.tag = SetField(@, i_field_name, PyStr(decoded.s))],
                             lengths, k + 1]

\* the content description, fh at offset p behind the object header
WmaContentDescription(w, p) ==
    WmaDataBlocksOf[[w EXCEPT !.pos = After(w.data, p, 10)],
                    [k \in 1..5 |-> BytesToIntLE(ReadAt(w.data, p + 2 * (k - 1), 2))], 1]

\* mapping.get(name) for the names of the model; "" for a custom field, which
\* goes to extra under its own name
WmaFieldName(name) ==
    CASE name = N_TrackNumber -> "track"
      [] name = N_AlbumTitle -> "album"
      [] name = N_Composer -> "extra.composer"
      [] OTHER -> ""

\* the end of a round of the descriptor loop: the value decoded by its type
\* and written; int() of a track that is no number leaves the field alone
WmaDescriptorValueOf[w \in WmaStates, field_name \in STRING, value_type \in Nat, value \in Seq(Nat)] ==
    LET decoded == WmaDecodeString(value)
        read == [w EXCEPT !.pos = w.pos + Len(value)]
    IN  IF value_type = 0
        THEN IF decoded.exc # "" THEN [read EXCEPT !.exc = decoded.exc]
             ELSE IF field_name = "" THEN read
             ELSE IF field_name = "track"
             THEN IF IntOf(decoded.s).ok
                  THEN [read EXCEPT !.tag = SetField(@, field_name, PyInt(IntOf(decoded.s).n))]
                  ELSE read
             ELSE [read EXCEPT !.tag = SetField(@, field_name, PyStr(decoded.s))]
        ELSE IF value_type > 1 /\ value_type < 6 /\ field_name # ""
        THEN [read EXCEPT !.tag = SetField(@, field_name, PyInt(BytesToIntLE(value)))]
        ELSE read

\* one round of the descriptor loop, fh at offset w.pos
WmaDescriptorOf[w \in WmaStates] ==
    LET name_len == BytesToIntLE(ReadAt(w.data, w.pos, 2))
        p1 == After(w.data, w.pos, 2)
        name == WmaDecodeString(ReadAt(w.data, p1, name_len))
        p2 == After(w.data, p1, name_len)
        value_type == BytesToIntLE(ReadAt(w.data, p2, 2))
        p3 == After(w.data, p2, 2)
        value_len == BytesToIntLE(ReadAt(w.data, p3, 2))
        p4 == After(w.data, p3, 2)
    IN  IF name.exc # "" THEN [w EXCEPT !.exc = name.exc, !.pos = p2]
        ELSE IF value_type = 1 THEN [w EXCEPT !.pos = p4 + value_len]   \* skip byte values
        ELSE WmaDescriptorValueOf[[w EXCEPT !.pos = p4], WmaFieldName(name.s), value_type,
                                  ReadAt(w.data, p4, value_len)]

WmaDescriptorsOf[w \in WmaStates, descriptor_count \in Nat] ==
    IF descriptor_count = 0 \/ w.exc # "" THEN w
    ELSE WmaDescriptorsOf[WmaDescriptorOf[w], descriptor_count - 1]

\* the extended content description, fh at offset p behind the object header
WmaExtendedContentDescription(w, p) ==
    WmaDescriptorsOf[[w EXCEPT !.pos = After(w.data, p, 2)],
                     BytesToIntLE(ReadAt(w.data, p, 2))]

\* the file property object: max(play_duration - preroll, 0.0) with
\* play_duration in units of 100 ns and preroll in ms
WmaFileProperty(w, p) ==
    LET play_duration == BytesToIntLE(ReadAt(w.data, p + 40, 8))
        p1 == After(w.data, p + 40, 8)
        preroll == BytesToIntLE(ReadAt(w.data, p1 + 8, 8))
        p2 == After(w.data, p1 + 8, 8)
    IN  [w EXCEPT !.pos = p2 + 16,
                  !.duration = IF (play_duration - 1) \div 10000 >= preroll
                               THEN Rat(play_duration - preroll * 10000, 10000000)
                               ELSE RatInt(0)]

\* the audio media fields of the stream properties, fh at offset p
WmaAudioMediaOf[w \in WmaStates, p \in Nat] ==
    LET codec_id_format_tag == BytesToIntLE(ReadAt(w.data, p, 2))
        p1 == After(w.data, After(w.data, p, 2), 2)
        samplerate == BytesToIntLE(ReadAt(w.data, p1, 4))
        p2 == After(w.data, p1, 4)
        avg_bytes_per_second == BytesToIntLE(ReadAt(w.data, p2, 4))
        p3 == After(w.data, p2, 4) + 2
        bits_per_sample == BytesToIntLE(ReadAt(w.data, p3, 2))
    IN  [w EXCEPT !.pos = After(w.data, p3, 2),
                  !.samplerate = samplerate,
                  !.bitrate = Rat(avg_bytes_per_second, 125),
                  !.bitdepth = IF codec_id_format_tag = 355 THEN bits_per_sample ELSE @]

\* the two seeks that end the stream properties
WmaStreamEndOf[w \in WmaStates, type_specific_data_length \in Nat, error_correction_data_length \in Nat, already_read \in Nat] ==
    [w EXCEPT !.pos = (w.pos + type_specific_data_length - already_read)
                        + error_correction_data_length]

\* the stream properties object, fh at offset p behind the object header
WmaStreamProperties(w, p) ==
    LET stream_type == ReadAt(w.data, p, 16)
        p1 == After(w.data, p, 16) + 24
        type_specific_data_length == BytesToIntLE(ReadAt(w.data, p1, 4))
        p2 == After(w.data, p1, 4)
        error_correction_data_length == BytesToIntLE(ReadAt(w.data, p2, 4))
        p3 == After(w.data, p2, 4) + 6
    IN  IF stream_type = STREAM_TYPE_ASF_AUDIO_MEDIA
        THEN WmaStreamEndOf[WmaAudioMediaOf[w, p3], type_specific_data_length,
                            error_correction_data_length, 16]
        ELSE WmaStreamEndOf[[w EXCEPT !.pos = p3], type_specific_data_length,
                            error_correction_data_length, 0]

\* the body of the loop behind the test of the size, fh at offset p
WmaDecodeOf[w \in WmaStates, p \in Nat, branch \in STRING, object_size \in Nat] ==
    CASE branch = "content description" -> WmaContentDescription(w, p)
      [] branch = "extended content description" -> WmaExtendedContentDescription(w, p)
      [] branch = "file property" -> WmaFileProperty(w, p)
      [] branch = "stream properties" -> WmaStreamProperties(w, p)
      \* read over unknown object ids
      [] branch = "unknown" -> [w EXCEPT !.pos = (p + object_size) - 24]

\* one round of the while loop, fh at offset w.pos: an implausible size and
\* an exception leave the loop
WmaRoundOf[w \in WmaStates, object_id \in Seq(Nat), size_bytes \in Seq(Nat)] ==
    LET object_size == BytesToIntLE(size_bytes)
        p == w.pos + Len(object_id) + Len(size_bytes)
        branch == WmaBranch(object_id, w.parse_tags)
        noted == [w EXCEPT !.began = w.pos, !.read = p, !.size = object_size]
        decoded == WmaDecodeOf[noted, p, branch, object_size]
    IN  IF object_size = 0 \/ object_size > w.filesize
        THEN [noted EXCEPT !.pc = "done", !.pos = p, !.branch = "break"]
        ELSE [decoded EXCEPT !.branch = branch,
                             !.pc = IF decoded.exc # "" THEN "done" ELSE "object"]

WmaObjectAt(w) ==
    WmaRoundOf[w, ReadAt(w.data, w.pos, 16), ReadAt(w.data, After(w.data, w.pos, 16), 8)]

\* a _Wma() at the start of _parse_tag, and the lines before the loop
NewWma(data, filesize, parse_tags) ==
    [pc |-> "idle", data |-> data, pos |-> 0, filesize |-> filesize,
     parse_tags |-> parse_tags, tag |-> NewTag, duration |-> Unset, bitrate |-> Unset,
     samplerate |-> 0, bitdepth |-> 0, exc |-> "", began |-> 0, read |-> 0, size |-> 0,
     branch |-> ""]

WmaOpen(w) ==
    IF WmaCheck(w.data) # ""
    THEN [w EXCEPT !.pc = "done", !.exc = WmaCheck(w.data), !.pos = After(w.data, 0, 30)]
    ELSE [w EXCEPT !.pc = "object", !.pos = 30]

\* the objects of the streams: the id, the size in 8 bytes and the payload
LE16(n) == <<n % 256, n \div 256>>

AsfObject(object_id, object_size, payload) ==
    object_id \o LE32(object_size) \o Zeros(4) \o payload

\* an id that is none of the ids of _Wma
UnknownId == [i \in 1..16 |-> i]

\* text in UTF-16, little endian
Utf16LE(text) == [i \in 1..(2 * Len(text)) |-> IF i % 2 = 1 THEN text[(i + 1) \div 2] ELSE 0]

AsfObjects ==
    {AsfObject(UnknownId, 27, <<1, 2, 3>>),
     \* a declared size below the 24 bytes of the header
     AsfObject(UnknownId, 5, <<>>),
     \* title 'A', author 'B'
     AsfObject(ASF_CONTENT_DESCRIPTION_OBJECT, 38,
               LE16(2) \o LE16(2) \o LE16(0) \o LE16(0) \o LE16(0) \o <<65, 0, 66, 0>>),
     \* WM/Composer = 'C'
     AsfObject(ASF_EXTENDED_CONTENT_DESCRIPTION_OBJECT, 58,
               LE16(1) \o LE16(24) \o Utf16LE(N_Composer) \o <<0, 0>> \o LE16(0) \o LE16(2)
                    \o <<67, 0>>),
     \* 3 s of play duration, 1000 ms of preroll
     AsfObject(ASF_FILE_PROPERTY_OBJECT, 104,
               Zeros(40) \o LE32(30000000) \o Zeros(4) \o Zeros(8) \o LE32(1000) \o Zeros(4)
                    \o Zeros(16)),
     \* lossless audio, 44100 Hz, 16000 bytes per second, 16 bits
     AsfObject(ASF_STREAM_PROPERTIES_OBJECT, 96,
               STREAM_TYPE_ASF_AUDIO_MEDIA \o Zeros(24) \o LE32(18) \o LE32(0) \o Zeros(6)
                    \o LE16(355) \o LE16(2) \o LE32(44100) \o LE32(16000) \o Zeros(2)
                    \o LE16(16) \o <<0, 0>>)}

\* the ends of the streams: nothing, an object header that the end of the
\* stream cuts short, a size of 0 and a size beyond the stream
AsfTails ==
    {<<>>, <<9, 9, 9>>,
     UnknownId \o <<7>>, UnknownId \o <<1>>, UnknownId \o <<6, 0>>,
     UnknownId \o <<4, 0, 0, 0>>,
     UnknownId \o Zeros(8) \o <<1, 2, 3>>,
     AsfObject(UnknownId, 100000, <<1, 2, 3>>)}

\* the most whole objects of a stream
MaxObjects == 2

RECURSIVE Concat(_)
Concat(ss) == IF ss = <<>> THEN <<>> ELSE Head(ss) \o Concat(Tail(ss))

AsfStreams ==
    {ASF_GUID \o Zeros(13) \o <<2>> \o Concat(objects) \o tail :
        objects \in UNION {[1..n -> AsfObjects] : n \in 0..MaxObjects}, tail \in AsfTails}

WmaInit == wm = NewWma(<<>>, 0, FALSE)

\* _Wma._load(tags, duration) to the first round of the loop: _parse_tag runs
\* for the tags, and for the duration when it has not run for the tags
WmaCall ==
    /\ wm.pc = "idle"
    /\ \E data \in AsfStreams, parse_tags, parse_duration \in BOOLEAN :
        /\ parse_tags \/ parse_duration
        /\ wm' = WmaOpen(NewWma(data, Len(data), parse_tags))
    /\ UNCHANGED notWma

\* one round of the loop
WmaObject ==
    /\ wm.pc = "object"
    /\ wm' = WmaObjectAt(wm)
    /\ UNCHANGED notWma

WmaNext == WmaCall \/ WmaObject

(***************************************************************************)
(* Ogg: the duration pass, _Ogg._determine_duration                        *)
(***************************************************************************)
\* max_page_size of _determine_duration
max_page_size == 65536

\* the page reader _parse_pages on fh at offset pos: its packets are those
\* yielded and not yet taken, granules lists the granule position of every
\* page header it has unpacked
Pagers ==
    [pc : STRING, data : Seq(Nat), pos : Nat, previous_page : Seq(Nat),
     packets : Seq(Seq(Nat)), max_samplenum : Int, exc : STRING, granules : Seq(Int)]

Pager(data, pos, max_samplenum, granules) ==
    [pc |-> IF Len(ReadAt(data, pos, 27)) = 27 THEN "page" ELSE "done", data |-> data,
     pos |-> pos, previous_page |-> <<>>, packets |-> <<>>,
     max_samplenum |-> max_samplenum, exc |-> "", granules |-> granules]

\* one round of the while loop of _parse_pages
PageStepOf[pg \in Pagers] ==
    [ReadPage(pg) EXCEPT !.granules = Append(@, GranulePos(ReadAt(pg.data, pg.pos, 27)))]

\* for _ in self._parse_pages(fh): pass
RunPagesOf[pg \in Pagers] == IF pg.pc = "page" THEN RunPagesOf[PageStepOf[pg]] ELSE pg

\* the for loop of _parse_tag over the generator _parse_pages: a page is read
\* when the loop asks for a packet and none is left of the pages before
TagPassOf[pg \in Pagers, t \in OggTagStates] ==
    IF t.exc # "" \/ pg.exc # "" \/ pg.pc = "break"
    THEN [pg |-> pg, t |-> IF pg.exc # "" THEN [t EXCEPT !.exc = pg.exc] ELSE t]
    ELSE IF pg.packets # <<>>
    THEN LET branch == PacketBranch(Head(pg.packets), t.check_flac_second_packet,
                                    t.check_speex_second_packet)
         IN  TagPassOf[[pg EXCEPT !.packets = Tail(@),
                                 !.pc = IF branch = "break" THEN "break" ELSE @],
                       [OggPacketOf[t, Head(pg.packets), branch]
                            EXCEPT !.handled = Append(@, branch)]]
    ELSE IF pg.pc = "page" THEN TagPassOf[PageStepOf[pg], t]
    ELSE [pg |-> pg, t |-> t]

\* the decoder in _determine_duration with its stream: start is the offset
\* the pass began at, found the offset of the OggS it parsed the pages from
\* (-1 before), granules the granule positions of the pages parsed by the tag
\* pass and by the duration pass, in the order of parsing
OggDurStates ==
    [pc : STRING, data : Seq(Nat), filesize : Nat, parse_tags : BOOLEAN, pos : Nat,
     samplerate : Int, duration : Fractions, max_samplenum : Int, exc : STRING,
     start : Int, found : Int, granules : Seq(Int)]

\* b.find(b'OggS') on b = data[pos:], -1 when b does not hold it
FindOggS(data, pos) ==
    LET hits == {i \in (pos + 1)..(Len(data) - 3) :
                    /\ data[i] = 79
                    /\ data[i + 1] = 103
                    /\ data[i + 2] = 103
                    /\ data[i + 3] = 83}
    IN  IF hits = {} THEN -1
        ELSE (CHOOSE i \in hits : \A j \in hits : i <= j) - (pos + 1)

\* the offset the pass begins at: fh.seek(0) of the lines before, or
\* fh.seek(-max_page_size, 2) in a stream of more bytes
DurationStart(filesize) ==
    IF filesize > max_page_size THEN filesize - max_page_size ELSE 0

\* the duration from the granule position of the page parsed last
DurationOfLastPage(pg, samplerate) == Rat(pg.granules[Len(pg.granules)], samplerate)

\* self._max_samplenum / self.samplerate
DurationOf(pg, samplerate) == Rat(pg.max_samplenum, samplerate)

\* _load(tags, duration=True) up to the while loop of _determine_duration:
\* _parse_tag has run, for the tags or for the sample rate
OggDurEntry(data, parse_tags) ==
    LET r == TagPassOf[Pager(data, 0, 0, <<>>),
                       NewOgg(<<>>, Len(data), parse_tags, TRUE, FALSE)]
        entered == r.t.exc = "" /\ r.t.duration = Unset /\ r.t.samplerate # 0
    IN  [pc |-> IF entered THEN "scan" ELSE "done", data |-> data,
         filesize |-> Len(data), parse_tags |-> parse_tags,
         pos |-> IF entered THEN DurationStart(Len(data)) ELSE 0,
         samplerate |-> r.t.samplerate, duration |-> r.t.duration,
         max_samplenum |-> r.pg.max_samplenum, exc |-> r.t.exc,
         start |-> IF entered THEN DurationStart(Len(data)) ELSE -1, found |-> -1,
         granules |-> r.pg.granules]

\* the branch of the round that has found OggS at file_offset
OggDurPagesOf[d \in OggDurStates, pg \in Pagers] ==
    [d EXCEPT !.pc = "done", !.found = d.pos, !.exc = pg.exc,
              !.pos = pg.pos + Len(ReadAt(d.data, pg.pos, 27)),
              !.max_samplenum = pg.max_samplenum, !.granules = pg.granules,
              !.duration = IF pg.exc = "" THEN DurationOf(pg, d.samplerate) ELSE @]

\* one round of the while loop, fh at offset d.pos
OggDurRoundOf[d \in OggDurStates, idx \in Int] ==
    IF Len(d.data) - d.pos < 4
    THEN [d EXCEPT !.pc = "done", !.pos = Len(d.data)]
    ELSE IF idx = 0
    THEN OggDurPagesOf[d, RunPagesOf[Pager(d.data, d.pos, d.max_samplenum, d.granules)]]
    ELSE [d EXCEPT !.pos = IF idx # -1 THEN d.pos + idx ELSE Len(d.data)]

OggDurRound(d) == OggDurRoundOf[d, FindOggS(d.data, d.pos)]

\* the bytes of a granule position, '<q'
GranuleBytes(n) ==
    IF n < 0 THEN [i \in 1..8 |-> 255 - (LE32((-n) - 1) \o Zeros(4))[i]]
    ELSE LE32(n) \o Zeros(4)

\* a page that holds one packet of less than 255 bytes
OnePacketPage(packet, granule, version) ==
    <<79, 103, 103, 83, version, 0>> \o GranuleBytes(granule) \o Zeros(12)
        \o <<1, Len(packet)>> \o packet

RECURSIVE HeaderPages(_)
HeaderPages(packets) ==
    IF packets = <<>> THEN <<>>
    ELSE OnePacketPage(Head(packets), 0, 0) \o HeaderPages(Tail(packets))

\* the first pages of the streams, with the granule position 0 of header
\* pages: a codec header and a packet that ends the tag pass, a codec header
\* alone, an embedded FLAC stream, whose STREAMINFO gives the duration, and a
\* stream without a codec header
OggHeads ==
    {HeaderPages(packets) :
        packets \in {<<VorbisIdentPacket, OtherPacket>>, <<OpusHeadPacket, OtherPacket>>,
                     <<VorbisIdentPacket>>, <<FlacHeaderPacket>>, <<OtherPacket>>}}

RECURSIVE AudioPages(_)
AudioPages(granules) ==
    IF granules = <<>> THEN <<>>
    ELSE OnePacketPage(ShortPacket, Head(granules), 0) \o AudioPages(Tail(granules))

\* the last pages: none, pages with their granule positions, -1 for a page
\* on which no packet ends, a page of version 1 and a page header that the
\* end of the stream cuts short
OggEnds ==
    {AudioPages(granules) :
        granules \in {<<>>, <<5>>, <<7, 3>>, <<-1>>, <<44100>>, <<3, -1>>}}
    \cup {OnePacketPage(ShortPacket, 9, 1), <<79, 103, 103, 83, 0, 0, 9>>}

\* what stands between the first and the last pages: nothing, bytes that
\* are no pages and fill the stream up to max_page_size, max_page_size such
\* bytes, and the same with the four bytes OggS among them
FillKinds == {"none", "upto", "junk", "junk with OggS"}

OggFill(kind, head, end) ==
    CASE kind = "none" -> <<>>
      [] kind = "upto" -> Zeros(max_page_size - (Len(head) + Len(end)))
      [] kind = "junk" -> Zeros(max_page_size)
      [] kind = "junk with OggS" ->
            Zeros(100) \o <<79, 103, 103, 83>> \o Zeros(max_page_size - 104)

OggDurStreams ==
    {head \o OggFill(kind, head, end) \o end :
        head \in OggHeads, kind \in FillKinds, end \in OggEnds}

OggDurInit == od = OggDurEntry(<<>>, FALSE)

\* _Ogg._load(tags, duration=True) to the first round of the loop of
\* _determine_duration
OggDurCall ==
    /\ od.pc = "done" /\ od.data = <<>>
    /\ \E data \in OggDurStreams, parse_tags \in BOOLEAN :
        od' = OggDurEntry(data, parse_tags)
    /\ UNCHANGED notOggDur

\* one round of the loop
OggDurScan ==
    /\ od.pc = "scan"
    /\ od' = OggDurRound(od)
    /\ UNCHANGED notOggDur

OggDurNext == OggDurCall \/ OggDurScan

(***************************************************************************)
(* MP4: the genre by its index, _MP4._Parser._parse_id3v1_genre            *)
(***************************************************************************)
\* _ID3.ID3V1_GENRES[idx] for idx below the length of the list: an index
\* below 0 counts from the end of the list
GenreAt(idx) ==
    IF idx < 0 THEN ID3V1_GENRES(ID3V1_GENRES_LEN + idx) ELSE ID3V1_GENRES(idx)

\* _parse_id3v1_genre(data_atom): the items of the dict it returns;
\* struct.unpack('>H', ...) asks for two bytes behind the first eight
ParseId3v1Genre(data_atom) ==
    LET idx == UnpackBE16(data_atom[9], data_atom[10]) - 1
    IN  IF Len(data_atom) # 10 THEN [exc |-> "struct.error", items |-> <<>>]
        ELSE IF idx < ID3V1_GENRES_LEN
        THEN [exc |-> "", items |-> <<[field |-> "genre", value |-> PyStr(GenreAt(idx))]>>]
        ELSE [exc |-> "", items |-> <<>>]

\* the payload of a data atom that holds the number v in 16 bits
GenreDataAtom(v) == <<0, 0, 0, 0>> \o Zeros(4) \o <<v \div 256, v % 256>>

\* the numbers of the data atoms: the indices of the list, those next to its
\* end and the largest 16-bit number
MaxGenreValue == 200

GenreValues == 0..MaxGenreValue \cup {65535}

GenreInit == ge = [pc |-> "idle", v |-> 0, data_atom |-> <<>>, tag |-> NewTag, exc |-> ""]

\* _traverse_atoms at the data atom of gnre: the handler's items are written
\* to a record that has no genre yet; a data atom of one byte more raises
GenreCall ==
    /\ ge.pc = "idle"
    /\ \E v \in GenreValues, more \in {<<>>, <<0>>}, load_image \in BOOLEAN :
        LET data_atom == GenreDataAtom(v) \o more
            parsed == ParseId3v1Genre(data_atom)
        IN  ge' = [pc |-> "done", v |-> v, data_atom |-> data_atom, exc |-> parsed.exc,
                   tag |-> TraverseLeaf(NewTag, parsed.items, load_image)]
    /\ UNCHANGED notGenre

GenreNext == GenreCall

(***************************************************************************)
(* Pictures: the image frames of an ID3v2 tag, alone and inside the other  *)
(* containers, and the covr atom of MP4                                    *)
(***************************************************************************)
\* the ids of _ID3.IMAGE_FRAME_IDS
APIC == <<65, 80, 73, 67>>
PIC == <<80, 73, 67>>

\* b[k:], k >= 0
From(b, k) == SubSeq(b, k + 1, Len(b))

\* _ID3._index_utf16(s, search)
IndexUtf16(s, search) ==
    LET hits == {i \in 0..(Len(s) - 1) :
                    i % Len(search) = 0 /\ Sub(From(s, i), 1, Len(search)) = search}
    IN  IF hits = {} THEN -1 ELSE Min(hits)

\* the branch of _parse_frame for an image frame when load_image is set:
\* content.index(b'\x00', 1) raises ValueError without such a byte
FrameImage(frame_id, content) ==
    LET encoding == Sub(content, 1, 1)
        nul == {i \in 1..(Len(content) - 1) : content[i + 1] = 0}
        \* skip encoding (1), imgformat (3), pictype (1), or mtype, pictype (1)
        desc_start_pos == IF frame_id = PIC THEN 1 + 3 + 1 ELSE Min(nul) + 1 + 1
        termination == IF encoding \in {<<0>>, <<3>>} THEN <<0>> ELSE <<0, 0>>
        desc_length == IndexUtf16(From(content, desc_start_pos), termination)
        desc_end_pos == desc_start_pos + desc_length + Len(termination)
    IN  IF frame_id # PIC /\ nul = {} THEN [exc |-> "ValueError", image |-> NoImage]
        ELSE [exc |-> "", image |-> [set |-> TRUE, bytes |-> From(content, desc_end_pos)]]

\* the image after the frames whose headers _parse_id3v2 has read at the
\* offsets reads: a header short of bytes or with the size 0 ends the loop
FrameImagesOf[data \in Seq(Nat), major \in Nat, reads \in Seq(Nat), image \in Images] ==
    IF reads = <<>> THEN [exc |-> "", image |-> image]
    ELSE LET frame_header_size == IF major = 2 THEN 6 ELSE 10
             frame_size_bytes == IF major = 2 THEN 3 ELSE 4
             frame_header_data == ReadAt(data, Head(reads), frame_header_size)
             frame_id == SubSeq(frame_header_data, 1, frame_size_bytes)
             frame_size ==
                 CalcSize(SubSeq(frame_header_data, frame_size_bytes + 1,
                                 2 * frame_size_bytes),
                          IF major = 4 THEN 7 ELSE 8)
             content == ReadAt(data, Head(reads) + frame_header_size, frame_size)
         IN  IF Len(frame_header_data) # frame_header_size \/ frame_size = 0
             THEN [exc |-> "", image |-> image]
             ELSE IF frame_id \in {APIC, PIC}
             THEN IF FrameImage(frame_id, content).exc # ""
                  THEN [exc |-> FrameImage(frame_id, content).exc, image |-> image]
                  ELSE FrameImagesOf[data, major, Tail(reads),
                                     FrameImage(frame_id, content).image]
             ELSE FrameImagesOf[data, major, Tail(reads), image]

\* the image of the frames of the pass v of _parse_id3v2 when the decoder d
\* loads images
Id3v2Images(data, d, v) ==
    IF d.load_image /\ v.exc = ""
    THEN FrameImagesOf[data, v.major, v.header_reads, NoImage]
    ELSE [exc |-> "", image |-> NoImage]

\* the record, the image and the offset behind the tag, and the exception
\* that ended the pass
Id3v2Joined(v, images) ==
    [tag |-> v.tag, image |-> images.image, pos |-> v.pos,
     exc |-> IF v.exc # "" THEN v.exc ELSE images.exc]

Id3v2Staged(data, d, v) == Id3v2Joined(v, Id3v2Images(data, d, v))

\* _parse_id3v2(fh) of the _ID3 with the configuration d, fh at offset pos
Id3v2Pass(data, pos, d) == Id3v2Staged(data, d, ParseId3v2At(data, pos, d.parse_tags))

\* the decoders, configured
DecoderConfigs ==
    [cls : Decoders, parse_tags : BOOLEAN, parse_duration : BOOLEAN,
     load_image : BOOLEAN, default_encoding : STRING, ignore_errors : BOOLEAN]

\* the ids of _Aiff.aiff_mapping whose fields the record of the model holds
AIFF_MAPPING(id) ==
    CASE id = <<78, 65, 77, 69>> -> "title"
      [] id = <<65, 85, 84, 72>> -> "artist"
      [] id = <<65, 78, 78, 79>> -> "comment"
      [] OTHER -> ""

\* a chunk loop on its way: the offset, the record, the image
ChunkStates ==
    [pc : {"chunk", "done"}, pos : Nat, tag : TagRecords, image : Images, exc : STRING]

\* the branch of the id3 chunk: id3._load(tags=True, duration=False,
\* image=self._load_image) has run as id3, and self._update(id3) follows
ChunkId3(c, id3) ==
    IF id3.exc # "" THEN [c EXCEPT !.pc = "done", !.exc = id3.exc]
    ELSE [c EXCEPT !.pos = id3.pos, !.tag = Update(@, id3.tag),
                   !.image = UpdateImage(@, id3.image)]

\* one round of the chunk loops of _Wave._parse_tag and _Aiff._parse_tag on
\* chunks that are text chunks of AIFF, id3 chunks or chunks the loops pass
\* over: when the tags are asked for, the text goes to the record and the id3
\* chunk goes to a new _ID3
ChunkStep(data, self, c) ==
    LET chunk_header == ReadAt(data, c.pos, 8)
        id == SubSeq(chunk_header, 1, 4)
        size == IF self.cls = "_Wave" THEN UnpackLE(SubSeq(chunk_header, 5, 8))
                ELSE UnpackBE32(SubSeq(chunk_header, 5, 8))
        text == ReadAt(data, c.pos + 8, size + (size % 2))
    IN  IF Len(chunk_header) # 8 THEN [c EXCEPT !.pc = "done"]
        ELSE IF self.cls = "_Aiff" /\ AIFF_MAPPING(id) # "" /\ self.parse_tags
        THEN [c EXCEPT !.pos = c.pos + 8 + Len(text),
                       !.tag = SetField(@, AIFF_MAPPING(id), PyStr(Unpad(text)))]
        ELSE IF id \in {<<105, 100, 51, 32>>, <<73, 68, 51, 32>>} /\ self.parse_tags
        THEN ChunkId3(c, Id3v2Pass(data, c.pos + 8, Delegate(self)))
        ELSE [c EXCEPT !.pos = c.pos + 8 + size + (size % 2)]

\* the chunk loop to its end, while len(chunk_header) == 8
ChunkLoopOf[data \in Seq(Nat), self \in DecoderConfigs, c \in ChunkStates] ==
    IF c.pc = "done" THEN c ELSE ChunkLoopOf[data, self, ChunkStep(data, self, c)]

\* the first twelve bytes of WAVE or AIFF are checked, then the chunk loop
\* runs from the offset 12
ChunkParse(data, self, check) ==
    IF check # ""
    THEN [pc |-> "done", pos |-> 0, tag |-> NewTag, image |-> NoImage, exc |-> check]
    ELSE ChunkLoopOf[data, self, [pc |-> "chunk", pos |-> 12, tag |-> NewTag,
                                  image |-> NoImage, exc |-> ""]]

\* self._update(id3) at the end of _Flac._parse_tag, behind the blocks f
FlacJoined(tagged, id3, f) ==
    IF id3.exc # "" THEN [exc |-> id3.exc, tag |-> NewTag, image |-> NoImage]
    ELSE IF f.exc # "" THEN [exc |-> f.exc, tag |-> f.tag, image |-> f.image]
    ELSE [exc |-> "",
          tag |-> IF tagged THEN Update(f.tag, id3.tag) ELSE f.tag,
          image |-> UpdateImage(f.image, id3.image)]

\* the blocks are read behind the tag id3
FlacBehind(data, self, tagged, id3) ==
    FlacJoined(tagged, id3,
               FlacLoad(data, id3.pos, Len(data), self.parse_tags, self.parse_duration,
                        self.load_image))

\* _Flac._parse_tag on a stream that may open with an ID3v2 tag: the tag goes
\* to a new _ID3, the blocks follow, and self._update(id3) comes last
FlacParse(data, self) ==
    FlacBehind(data, self, Sub(data, 1, 3) = <<73, 68, 51>>,
               IF Sub(data, 1, 3) = <<73, 68, 51>>
               THEN Id3v2Pass(data, 0, Delegate(self))
               ELSE [tag |-> NewTag, image |-> NoImage, pos |-> 0, exc |-> ""])

\* the content of the atom at the end of path in a stream whose containers
\* hold one atom each, as _traverse_atoms reaches it
LeafOn[data \in Seq(Nat), path \in Seq(Seq(Nat))] ==
    LET atom_header == Sub(data, 1, 8)
        atom_size == UnpackBE32(SubSeq(atom_header, 1, 4)) - 8
        atom_type == SubSeq(atom_header, 5, 8)
        skip == IF atom_type \in VERSIONED_ATOMS THEN 4 ELSE 0
    IN  IF Len(atom_header) # 8 THEN [found |-> FALSE, content |-> <<>>]
        ELSE IF atom_size <= 0 \/ atom_type # Head(path)
        THEN [found |-> FALSE, content |-> <<>>]
        ELSE IF Len(path) = 1
        THEN [found |-> TRUE, content |-> Sub(data, 9, 8 + atom_size)]
        ELSE LeafOn[Sub(data, 9 + skip, 8 + skip + atom_size), Tail(path)]

A_covr == <<99, 111, 118, 114>>

\* x.decode('utf-8', 'replace') of bytes none of which opens a sequence of
\* several bytes (none of 194..244): a byte from 128 on becomes U+FFFD
Utf8Replace(x) == [i \in 1..Len(x) |-> IF x[i] < 128 THEN x[i] ELSE 65533]

\* the handler of covr > data, _make_data_atom_parser('_image_data'): the
\* type 1 (UTF-8) gives the text behind the first eight bytes, the types 13
\* (JPEG) and 14 (PNG) give the bytes, a type without a conversion gives no
\* item
ParseImageAtom(data_atom) ==
    LET data_type == UnpackBE32(SubSeq(data_atom, 1, 4))
    IN  IF data_type = 1
        THEN <<[field |-> "_image_data", value |-> PyStr(Utf8Replace(From(data_atom, 8)))]>>
        ELSE IF data_type \in {13, 14}
        THEN <<[field |-> "_image_data",
                value |-> [t |-> "bytes", s |-> From(data_atom, 8), n |-> 0]]>>
        ELSE <<>>

\* _traverse_atoms on the leaf covr > data: the item that passes the test of
\* load_image goes to _set_field, which leaves an empty text unwritten
CovrImage(data, self) ==
    LET leaf == LeafOn[data, <<A_moov, A_udta, A_meta, A_ilst, A_covr, A_data>>]
        items == IF leaf.found
                 THEN LeafItems(ParseImageAtom(leaf.content), self.load_image)
                 ELSE <<>>
    IN  [exc |-> "", tag |-> NewTag,
         image |-> IF items = <<>> \/ items[1].value = PyStr(<<>>) THEN NoImage
                   ELSE [set |-> TRUE, bytes |-> items[1].value.s]]

\* what a parse leaves: the exception, the record, the image
Loaded(r) == [exc |-> r.exc, tag |-> r.tag, image |-> r.image]

\* TinyTag._load of the decoder self on the stream data: _parse_tag runs for
\* the tags, and for the duration in the decoders whose _determine_duration
\* calls it; the streams are no longer than 128 bytes where _ID3 reads them,
\* which leaves _parse_id3v1 aside, and hold no frame of MPEG audio and no
\* atom of the audio tree, which leaves the duration passes of _ID3 and _MP4
\* without a value to set
ImageLoad(self, data) ==
    Loaded(CASE self.cls = "_ID3" /\ self.parse_tags -> Id3v2Pass(data, 0, self)
             [] self.cls \in {"_Wave", "_Aiff"} ->
                    ChunkParse(data, self, IF self.cls = "_Wave" THEN WaveCheck(data)
                                           ELSE AiffCheck(data))
             [] self.cls = "_Flac" -> FlacParse(data, self)
             [] self.cls = "_MP4" /\ self.parse_tags -> CovrImage(data, self)
             [] OTHER -> [exc |-> "", tag |-> NewTag, image |-> NoImage])

\* a frame of an ID3v2 tag under any id
RawFrame(major, id, content) ==
    id \o (IF major = 2 THEN <<0, 0, Len(content)>> ELSE <<0, 0, 0, Len(content), 0, 0>>)
       \o content

\* the contents of image frames: APIC with a latin-1 description, with a
\* UTF-16 description, with a description that does not end, with no picture
\* bytes, with no NUL behind the mime type; PIC with a latin-1 description
PictureFrames ==
    [apic |-> <<0, 105, 47, 112, 0, 3, 99, 0>> \o PictureBytes,
     utf16 |-> <<1, 105, 47, 112, 0, 3, 255, 254, 99, 0, 0, 0>> \o PictureBytes,
     open |-> <<0, 105, 47, 112, 0, 3, 99, 100>>,
     bare |-> <<0, 105, 47, 112, 0, 3, 99, 0>>,
     nonul |-> <<0, 105, 47, 112>>,
     pic |-> <<0, 80, 78, 71, 3, 99, 0>> \o PictureBytes]

\* the frames of a tag by kind: a title 'A' or an image frame
TagFrameBytes(major, kind) ==
    IF kind = "title"
    THEN FrameBytes(major, [frame_id |-> "TIT2", content |-> Latin1(<<65>>)])
    ELSE RawFrame(major, IF major = 2 THEN PIC ELSE APIC, PictureFrames[kind])

RECURSIVE TagFramesBytes(_, _)
TagFramesBytes(major, kinds) ==
    IF kinds = <<>> THEN <<>>
    ELSE TagFrameBytes(major, Head(kinds)) \o TagFramesBytes(major, Tail(kinds))

\* an ID3v2 tag around the frames
PictureTag(major, kinds) ==
    <<73, 68, 51, major, 0, 0, 0, 0, 0, Len(TagFramesBytes(major, kinds))>>
        \o TagFramesBytes(major, kinds)

\* the tags: of version 2.2 with PIC, of versions 2.3 and 2.4 with APIC
PictureTags ==
    {PictureTag(2, kinds) : kinds \in SeqsUpTo({"title", "pic"}, MaxTagFrames)}
    \cup {PictureTag(major, kinds) :
            major \in {3, 4},
            kinds \in SeqsUpTo({"title", "apic", "utf16", "open", "bare", "nonul"},
                               MaxTagFrames)}

\* a chunk of AIFF: the size is big-endian
AiffChunk(id, payload) ==
    id \o BE32Size(Len(payload)) \o payload
       \o (IF Len(payload) % 2 = 1 THEN <<0>> ELSE <<>>)

\* the content of the data atom under covr: a type, a locale, the bytes
CovrTypes == {0, 1, 13, 14}

\* the streams of a decoder: the tag alone; the tag in an id3 chunk of WAVE
\* or AIFF, behind a chunk of another kind, behind a NAME chunk 'B' in AIFF,
\* or first; the tag, or none, before the blocks of FLAC, which are
\* STREAMINFO and PICTURE, or STREAMINFO alone and the stream ends there, or
\* STREAMINFO and a VORBIS_COMMENT with a title; the covr item of MP4
PictureStreams(cls) ==
    CASE cls = "_ID3" -> PictureTags
      [] cls = "_Wave" ->
            {<<82, 73, 70, 70>> \o Zeros(4) \o <<87, 65, 86, 69>> \o before
                \o Chunk(id, t) :
                t \in PictureTags, id \in {<<105, 100, 51, 32>>, <<73, 68, 51, 32>>},
                before \in {<<>>, Chunk(<<74, 85, 78, 75>>, <<1>>)}}
      [] cls = "_Aiff" ->
            {<<70, 79, 82, 77>> \o Zeros(4) \o <<65, 73, 70, 70>> \o before
                \o AiffChunk(id, t) :
                t \in PictureTags, id \in {<<105, 100, 51, 32>>, <<73, 68, 51, 32>>},
                before \in {<<>>, AiffChunk(<<74, 85, 78, 75>>, <<1>>),
                            AiffChunk(<<78, 65, 77, 69>>, <<66>>)}}
      [] cls = "_Flac" ->
            {t \o <<102, 76, 97, 67>> \o blocks :
                t \in PictureTags \cup {<<>>},
                blocks \in {FlacBlockBytes(METADATA_STREAMINFO, FALSE, 34, StreamInfoBody)
                                \o FlacBlockBytes(METADATA_PICTURE, TRUE,
                                                  Len(PictureBody(PictureBytes)),
                                                  PictureBody(PictureBytes)),
                            FlacBlockBytes(METADATA_STREAMINFO, FALSE, 34, StreamInfoBody),
                            FlacBlockBytes(METADATA_STREAMINFO, FALSE, 34, StreamInfoBody)
                                \o FlacBlockBytes(METADATA_VORBIS_COMMENT, TRUE,
                                                  Len(VorbisBody(<<TitleA>>)),
                                                  VorbisBody(<<TitleA>>))}}
      [] cls = "_MP4" ->
            {Atom(A_moov, Atom(A_udta, Atom(A_meta, Zeros(4) \o Atom(A_ilst,
                Atom(A_covr, Atom(A_data, <<0, 0, 0, type>> \o Zeros(4) \o bytes)))))) :
                type \in CovrTypes, bytes \in {PictureBytes, <<>>}}

PictureDecoders == {"_ID3", "_Wave", "_Aiff", "_Flac", "_MP4"}

ImageInit ==
    im = [pc |-> "idle", self |-> NewDecoder("_ID3"), data |-> <<>>, tag |-> NewTag,
          image |-> NoImage, exc |-> ""]

\* what get leaves behind _load
GetLeaves(self, data, loaded) ==
    [pc |-> "done", self |-> self, data |-> data,
     tag |-> IF loaded.exc = "" THEN loaded.tag ELSE NewTag,
     image |-> IF loaded.exc = "" THEN loaded.image ELSE NoImage,
     exc |-> IF loaded.exc = "" THEN "" ELSE "TinyTagException"]

GetReturns(self, data) == GetLeaves(self, data, ImageLoad(self, data))

\* cls.get(file_obj=..., tags=..., duration=..., image=...) to its end: an
\* exception of _load leaves get as a TinyTagException, and no record is
\* returned
ImageGet ==
    /\ im.pc = "idle"
    /\ \E cls \in PictureDecoders, tags, duration, image \in BOOLEAN :
        \E data \in PictureStreams(cls) :
            /\ tags \/ duration
            /\ im' = GetReturns(Configured(cls, tags, duration, image, FALSE, ""), data)
    /\ UNCHANGED notImage

Init ==
    /\ AccInit
    /\ SniffInit
    /\ MagicInit
    /\ GetInit
    /\ Id3Init
    /\ FlacInit
    /\ Mp3Init
    /\ OggInit
    /\ StreamInfoInit
    /\ Id3v2Init
    /\ WaveInit
    /\ NestedInit
    /\ Mp4Init
    /\ FlacBlocksInit
    /\ OggTagInit
    /\ WmaInit
    /\ OggDurInit
    /\ GenreInit
    /\ ImageInit

SpecAcc == Init /\ [][AccNext]_vars
SpecSniff == Init /\ [][SniffNext]_vars
SpecMagic == Init /\ [][MagicNext]_vars
SpecGet == Init /\ [][GetNext]_vars
SpecId3 == Init /\ [][Id3Next]_vars
SpecFlac == Init /\ [][FlacNext]_vars
SpecMp3 == Init /\ [][Mp3Next]_vars
SpecMp3Long == Init /\ [][Mp3LongNext]_vars
\* the duration pass runs on once it is called: the loop of
\* _determine_duration is sequential code, a round that can be taken is taken
SpecMp3Fair == SpecMp3 /\ WF_vars(Mp3Scan)
SpecOgg == Init /\ [][OggNext]_vars
SpecStreamInfo == Init /\ [][StreamInfoNext]_vars
SpecId3v2 == Init /\ [][Id3v2Next]_vars
SpecWave == Init /\ [][WaveNext]_vars
SpecNested == Init /\ [][NestedNext]_vars
SpecMp4 == Init /\ [][Mp4Next]_vars
SpecFlacBlocks == Init /\ [][FlacBlocksNext]_vars
SpecOggTag == Init /\ [][OggTagNext]_vars
SpecWma == Init /\ [][WmaNext]_vars

\* a call of _Wma._parse_tag runs its loop for as long as the loop goes on
SpecWmaFair == SpecWma /\ WF_vars(WmaObject)
\* no decoder has been given a stream
NoParseYet == FlacBlocksInit /\ OggTagInit /\ ImageInit

\* the parses in which a picture may be met: the blocks of FLAC, the packets
\* of Ogg, and the tags, chunks and atoms of the other containers
ImageFlacCall == NoParseYet /\ FlacBlocksCall
ImageOggCall == NoParseYet /\ OggTagCall
ImageCall == NoParseYet /\ ImageGet

ImageNext == ImageFlacCall \/ FlacBlock \/ ImageOggCall \/ OggPacket \/ ImageCall

SpecImage == Init /\ [][ImageNext]_vars

\* no decoder has been given a stream
Unparsed ==
    FlacBlocksInit /\ OggTagInit /\ WmaInit /\ WaveInit /\ Mp4Init /\ ImageInit

\* the parses that may write the record: the blocks of FLAC, the packets of
\* Ogg, the objects of WMA, the chunks of WAVE, the atoms of MP4, and the
\* tags and chunks of the streams that may hold pictures
RecordFlacCall == Unparsed /\ FlacBlocksCall
RecordOggCall == Unparsed /\ OggTagCall
RecordWmaCall == Unparsed /\ WmaCall
RecordWaveCall == Unparsed /\ WaveCall
RecordMp4Call == Unparsed /\ Mp4Call
RecordGet == Unparsed /\ ImageGet

RecordNext ==
    \/ RecordFlacCall \/ FlacBlock
    \/ RecordOggCall \/ OggPacket
    \/ RecordWmaCall \/ WmaObject
    \/ RecordWaveCall \/ WaveRound
    \/ RecordMp4Call \/ Mp4Atom
    \/ RecordGet

SpecRecord == Init /\ [][RecordNext]_vars

SpecGenre == Init /\ [][GenreNext]_vars
SpecOggDur == Init /\ [][OggDurNext]_vars

\* a call of _determine_duration runs its loop until the loop is left
SpecOggDurFair == SpecOggDur /\ WF_vars(OggDurScan)

\* a call of _Flac._parse_tag runs its loop until the loop ends
SpecFlacBlocksFair == SpecFlacBlocks /\ WF_vars(FlacBlock)

(***************************************************************************)
(* Properties of the accumulator (SpecAcc)                                 *)
(***************************************************************************)
\* C1: after _set_field(field, value) with a str value the field holds
\*   - what it held before, when value is empty;
\*   - the old value, a NUL character, then value, when the field held a
\*     non-empty string different from value;
\*   - value otherwise (the field was unset, or held value already: no
\*     duplicate is appended).
C1_MergeRule ==
    \A i \in DOMAIN last :
        LET w == last[i]
            held == GetField(tag, w.field)
        IN  w.value.t = "str" =>
                IF w.value.s = <<>>
                THEN held = w.old
                ELSE IF w.old.t = "str" /\ w.old.s # <<>> /\ w.old # w.value
                     THEN held = PyStr(w.old.s \o <<0>> \o w.value.s)
                     ELSE held = w.value

\* C1, its case: title held "A", "B" was written, title holds "A\x00B"
C1_Witness ==
    /\ last # <<>>
    /\ last[1] = [field |-> "title", value |-> PyStr(<<66>>), old |-> PyStr(<<65>>)]
    /\ tag.attr["title"] = PyStr(<<65, 0, 66>>)

\* C2: a write of an empty string or of the integer 0 to a field that holds
\* a value leaves the value in place.
C2_EmptyWriteKeepsValue ==
    \A i \in DOMAIN last :
        LET w == last[i]
        IN  (w.old # PyNone /\ ~Truthy(w.value)) => GetField(tag, w.field) = w.old

(***************************************************************************)
(* Properties of the sniffer (SpecSniff, SpecMagic)                        *)
(***************************************************************************)
\* the file name carries a documented extension, in any letter case
DocExtension(filename) == NameGiven(filename) /\ LowerAscii(ExtOf(filename)) \in DocExts

\* C3: a call of the top-level class with a file name that has a registered
\* extension selects the decoder of that extension, whatever the stream
\* holds, and the signatures are consulted only when no name is given or its
\* extension is not registered.
C3_ExtensionPriority ==
    (sn.called /\ sn.cls = "TinyTag") =>
        /\ \A p \in DocExtensions :
              (NameGiven(sn.filename) /\ ExtOf(sn.filename) = p[1])
                  => sn.res = Found(p[2], FALSE)
        /\ sn.res.magic_read => ~DocExtension(sn.filename)

\* C4: a call of the top-level class resolves every documented extension and
\* every stream that begins with a documented signature (whatever bytes stand
\* at its wildcard positions) to the documented decoder, and fails with the
\* unsupported-format error on a stream that begins with no signature under a
\* name without a registered extension.  The Ogg signatures are read here
\* with the wildcard counts of OggSignatures, the reading under which Ogg
\* streams are recognised at all.
C4_DocumentedResolution ==
    (sn.called /\ sn.cls = "TinyTag") =>
        /\ \A p \in DocExtensions :
              (NameGiven(sn.filename) /\ ExtOf(sn.filename) = p[1])
                  => sn.res = Found(p[2], FALSE)
        /\ ~DocExtension(sn.filename) =>
              \A k \in DOMAIN OggSignatures, f \in FillBytes :
                  sn.data = SigStream(OggSignatures[k].sig, f)
                      => sn.res = Found(OggSignatures[k].decoder, TRUE)
        /\ (~DocExtension(sn.filename) /\ sn.data \in GarbageStreams)
              => sn.res = Raised("TinyTagException", TRUE)

\* two headers hold the same byte at every literal position of a signature
AgreeOnLiterals(magic, h1, h2) ==
    LET sig == SelectSeq(magic, LAMBDA x : x # CARET)    \* without its '^'
    IN  /\ Len(h1) >= Len(sig)
        /\ Len(h2) >= Len(sig)
        /\ \A i \in DOMAIN sig : sig[i] # DOT => h1[i] = h2[i]

\* C5: two streams that agree on all literal positions of a signature either
\* both match it or both fail to match it, whatever bytes stand at its
\* wildcard positions.
C5_WildcardAnyByte ==
    mg.calls = 2 =>
        \A k \in DOMAIN MAGIC_BYTES_MAPPING :
            AgreeOnLiterals(MAGIC_BYTES_MAPPING[k].magic, mg.prev, mg.cur)
                => (k \in mg.prev_match <=> k \in mg.cur_match)

(***************************************************************************)
(* Properties of the facade (SpecGet)                                      *)
(***************************************************************************)
\* both passes were requested, the tag pass completed and the duration pass
\* raised
DurationPassFailed ==
    /\ g.pc = "done"
    /\ g.tags /\ g.duration
    /\ g.tag_pass
    /\ g.failed_in = "duration"

\* C6: when both passes are requested, the tag pass completes and the
\* duration pass fails, get returns the record with the fields of the tag
\* pass and without a duration.
C6_TagsSurviveDurationFailure ==
    DurationPassFailed =>
        /\ g.out.kind = "return"
        /\ g.out.tag.title = g.tag.title
        /\ ~g.out.tag.duration

\* C6 as amended: when both passes are requested, the tag pass completes and
\* the duration pass fails, get raises one TinyTagException that carries the
\* failure of the duration pass, and returns no record: the fields of the tag
\* pass are lost with it.
C6_DurationFailureRaises ==
    DurationPassFailed =>
        /\ g.out.kind = "raise"
        /\ g.out.exc = "TinyTagException"
        /\ g.out.cause \in {"struct.error", "TinyTagException"}
        /\ g.out.tag = NewRecord(0)

\* C6, its case: the tag pass had set the title when the duration pass raised
C6_Witness ==
    /\ DurationPassFailed
    /\ g.tag.title = PyStr(<<65>>)
    /\ g.out.kind = "raise"

\* the parse ran a pass of a decoder on a non-empty stream whose first bytes
\* fail the decoder's container check, or a later Ogg page failed its check
HitsFatalCondition ==
    /\ g.pc = "done"
    /\ \/ /\ g.parser \in {"_Wave", "_Aiff", "_Flac", "_Wma", "_Ogg"}
          /\ g.tag.filesize > 0
          /\ g.tags \/ g.duration
          /\ ContainerCheck(g.parser, g.st.data) = "TinyTagException"
       \/ g.fatal

\* C7: when a decoder hits a fatal container condition on a non-empty stream,
\* get ends with one TinyTagException that carries the decoder's exception as
\* its cause, and returns no record.
C7_FatalConditionWrapped ==
    HitsFatalCondition =>
        /\ g.out.kind = "raise"
        /\ g.out.exc = "TinyTagException"
        /\ g.out.cause = "TinyTagException"
        /\ g.out.tag = NewRecord(0)

\* C7, its case: a .wav name over a stream that begins with RIFX
C7_Witness ==
    /\ HitsFatalCondition
    /\ g.parser = "_Wave"
    /\ Sub(g.st.data, 1, 4) = <<82, 73, 70, 88>>
    /\ g.out.kind = "raise"

\* C8: a stream that get opened from the file name is closed when get is
\* left, by return or by exception; a stream of the caller is never closed.
C8_StreamClosedOnExit ==
    /\ (g.pc = "done" /\ g.opened) => g.closed
    /\ g.given => ~g.closed

\* C8, its case: get opened the stream and measuring its size failed
C8_Witness ==
    /\ g.pc = "done"
    /\ g.opened
    /\ g.out.exc = "OSError"
    /\ g.closed

(***************************************************************************)
(* Properties of the FLAC and ID3 tag passes (SpecFlac, SpecId3)           *)
(***************************************************************************)
\* C9: in a FLAC file with a leading ID3v2 tag, every field that the Vorbis
\* comment block and the ID3v2 tag both set, to different values, holds the
\* Vorbis value in the final record.
C9_VorbisTakesPrecedence ==
    (fl.called /\ fl.has_id3 /\ fl.parse_tags) =>
        \A f \in AttrNames :
            (fl.oggtag.attr[f] # PyNone /\ fl.id3.attr[f] # PyNone
                /\ fl.oggtag.attr[f] # fl.id3.attr[f])
            => fl.tag.attr[f] = fl.oggtag.attr[f]

\* the fields the ID3v1 block can fill
V1Fields == {"title", "artist", "album", "year", "comment", "track", "genre"}

\* the file ends in an ID3v1 block and _parse_tag read it
V1Applied == i3.called /\ i3.filesize > 128 /\ Sub(i3.tail, 1, 3) = <<84, 65, 71>>

\* C10: when the ID3v1 block is applied after ID3v2, every one of title,
\* artist, album, year, comment, track and genre that the ID3v2 frames set
\* keeps its ID3v2 value, and the fields they left unset and the block fills
\* are the only ones that change.
C10_V1FillsUnsetOnly ==
    V1Applied =>
        /\ \A f \in V1Fields : i3.v2.attr[f] # PyNone => i3.tag.attr[f] = i3.v2.attr[f]
        /\ \A f \in AttrNames \ V1Fields : i3.tag.attr[f] = i3.v2.attr[f]
        /\ i3.tag.extra = i3.v2.extra

\* C10, its case: ID3v2 set the title 'A' and the track 0, the ID3v1 block
\* holds the title and artist 'B' and the track 7: the title and the track are
\* kept, the artist is filled
C10_Witness ==
    /\ V1Applied
    /\ i3.v2.attr["title"] = PyStr(<<65>>)
    /\ i3.v2.attr["track"] = PyInt(0)
    /\ Sub(i3.tail, 4, 4) = <<66>>
    /\ i3.tail[127] = 7
    /\ i3.tag.attr["title"] = PyStr(<<65>>)
    /\ i3.tag.attr["track"] = PyInt(0)
    /\ i3.tag.attr["artist"] = PyStr(<<66>>)

(***************************************************************************)
(* Properties of the MP3 duration pass (SpecMp3)                           *)
(***************************************************************************)
\* samples per frame of an MPEG class: 576 for MPEG 2 and 2.5, 1152 for MPEG 1
ClassSamples(mpeg_id) == IF mpeg_id \in {0, 2} THEN 576 ELSE 1152

\* the scan has ended on a stream whose first valid frame carries a whole
\* Xing header with the frame-count and the byte-count flag
XingBothPresent ==
    /\ mp.pc = "done"
    /\ mp.in.xing.present /\ ~mp.in.xing.cut
    /\ mp.in.xing.flags % 4 = 3

\* the results of the fast path for frame count F and byte count B: the
\* duration F x S / samplerate, the bitrate B x 8 / duration / 1000, no frame
\* counted and no header examined after the first
XingResult(F, B) ==
    LET duration == Rat(F * ClassSamples(mp.in.mpeg_id), SAMPLERATES(mp.in.mpeg_id, 1))
    IN  /\ mp.via = "xing"
        /\ mp.duration = duration
        /\ mp.bitrate = RatDiv(RatDiv(RatInt(B * 8), duration), RatInt(1000))
        /\ mp.frames = 0
        /\ Len(mp.headers) = 1

\* C11: when the first valid frame carries a Xing header whose frame count F
\* and byte count B are both present, the duration pass sets duration =
\* F x S / samplerate (S = 576 for an MPEG2-class stream, 1152 otherwise) and
\* bitrate = B x 8 / duration / 1000 and stops without counting any frame.
C11_XingFastPath ==
    XingBothPresent => XingResult(mp.in.xing.frames, mp.in.xing.byte_count)

\* C11 as amended: the same when F and B are both present and greater than
\* zero, read as signed 32-bit integers.
C11_XingFastPathPositive ==
    (XingBothPresent /\ mp.in.xing.frames > 0 /\ mp.in.xing.byte_count > 0)
        => XingResult(mp.in.xing.frames, mp.in.xing.byte_count)

\* C11, its case: an MPEG 2 stream at 24000 Hz after an ID3v2 tag, F = 100 and
\* B = 144000: the duration is 100 x 576 / 24000 = 12/5 and the bitrate 480
C11_Witness ==
    /\ XingBothPresent
    /\ mp.in.mpeg_id = 2 /\ mp.in.prefix = "id3"
    /\ mp.in.xing.frames = 100 /\ mp.in.xing.byte_count = 144000
    /\ mp.via = "xing"
    /\ mp.duration = [num |-> 12, den |-> 5]
    /\ mp.bitrate = [num |-> 480, den |-> 1]

\* the first five frames of the stream carry one bitrate
FirstFiveEqual == \A i \in 1..5 : mp.in.pattern[i] = mp.in.pattern[1]

\* C12: with no Xing header, if the first 5 valid frames carry the same
\* bitrate the scan stops after exactly those 5 frames, reports that bitrate
\* and sets duration = (file size - 128 - offset of the first valid frame) /
\* (mean frame length) x S / samplerate, S = 576 for an MPEG2-class stream and
\* 1152 otherwise; if the 5 bitrates are not all equal the scan continues.
C12_CbrExtrapolation ==
    (mp.pc = "done" /\ ~mp.in.xing.present /\ Len(mp.in.pattern) >= 5) =>
        IF FirstFiveEqual
        THEN /\ mp.via = "estimate"
             /\ mp.frames = 5
             /\ Len(mp.headers) = 5
             /\ mp.bitrate =
                    RatInt(BITRATE_BY_VERSION_BY_LAYER(mp.in.mpeg_id, 1, mp.in.pattern[1]))
             /\ mp.duration =
                    RatDiv(RatMul(RatDiv(RatInt(Len(mp.data) - 128
                                                  - Len(Mp3Prefix(mp.in.prefix))),
                                         RatInt(FrameLen(mp.in.mpeg_id, mp.in.pattern[1]))),
                                  RatInt(ClassSamples(mp.in.mpeg_id))),
                           RatInt(SAMPLERATES(mp.in.mpeg_id, 1)))
        ELSE ~(mp.via = "estimate" /\ mp.frames = 5)


\* the segment tables of a stream as one table, in stream order
RECURSIVE AllSegments(_)
AllSegments(tables) ==
    IF tables = <<>> THEN <<>> ELSE Head(tables) \o AllSegments(Tail(tables))

\* the packet lengths the lacing values of segs[i..] announce, open the
\* bytes of the 255-valued segments directly before: one length per segment
\* below 255
RECURSIVE LacingLengths(_, _, _)
LacingLengths(segs, i, open) ==
    IF i > Len(segs) THEN <<>>
    ELSE IF segs[i] < 255
         THEN <<open + segs[i]>> \o LacingLengths(segs, i + 1, 0)
         ELSE LacingLengths(segs, i + 1, open + 255)

\* the lengths of the packets yielded
PacketLengths == [i \in 1..Len(og.packets) |-> Len(og.packets[i])]

\* the run has read every page of a well-formed stream
OggRead == og.pc = "done" /\ og.tables # <<>> /\ ~og.bad

\* C13: Ogg packet boundaries follow the lacing values: each segment below
\* 255 ends the current packet and each segment of 255 continues it, so one
\* packet is yielded per segment below 255, made of that segment and the run
\* of 255-valued segments directly before it ([255, 10, 20] yields 265 and 20
\* bytes, [255, 0] yields 255 bytes).
C13_PacketsFollowLacing ==
    OggRead => PacketLengths = LacingLengths(AllSegments(og.tables), 1, 0)

\* the bytes of the packets yielded, in order
RECURSIVE Joined(_)
Joined(packets) ==
    IF packets = <<>> THEN <<>> ELSE Head(packets) \o Joined(Tail(packets))

\* the payload bytes of the stream that belong to finished packets
FinishedPayload ==
    LET n == Sum(LacingLengths(AllSegments(og.tables), 1, 0))
    IN  [k \in 1..n |-> PayloadByte(k)]

\* a packet runs from the last segment of page 1, of value 255, into page 2
\* and ends there
SpansPages ==
    /\ Len(og.tables) = 2
    /\ og.tables[1] # <<>> /\ og.tables[1][Len(og.tables[1])] = 255
    /\ \E i \in 1..Len(og.tables[2]) : og.tables[2][i] < 255
    /\ Sum(og.tables[2]) > 0

\* some packet yielded holds the last payload byte of page 1 and the first
\* of page 2
SpanningPacketWhole ==
    LET n1 == Sum(og.tables[1])
    IN  \E i \in 1..Len(og.packets) :
            LET before == Sum(SubSeq(PacketLengths, 1, i - 1))
            IN  before < n1 /\ n1 + 1 <= before + Len(og.packets[i])

\* C14: a packet whose data ends page N with a 255-valued final segment and
\* continues on page N+1 is yielded once, as the concatenation of both
\* fragments; and the bytes of the packets yielded, in order, are the page
\* payload bytes in stream order, none lost, duplicated or reordered, apart
\* from a packet unfinished at the end of the stream.
C14_ReassemblyAcrossPages ==
    OggRead =>
        /\ SpansPages => SpanningPacketWhole
        /\ Joined(og.packets) = FinishedPayload


\* the bits of a byte string, most significant first
RECURSIVE BitsOf(_)
BitsOf(b) ==
    IF b = <<>> THEN <<>>
    ELSE [k \in 1..8 |-> (Head(b) \div (2 ^ (8 - k))) % 2] \o BitsOf(Tail(b))

\* the unsigned number held by bits[from .. from + len - 1]
RECURSIVE BitField(_, _, _)
BitField(bits, from, len) ==
    IF len = 0 THEN 0
    ELSE BitField(bits, from, len - 1) * 2 + bits[from + len - 1]

\* the fields packed from byte 10 of the block: 20 bits of sample rate, 3 of
\* channels - 1, 5 of depth - 1, 36 of total samples
PackedFields ==
    LET bits == BitsOf(si.packed)
    IN  [samplerate |-> BitField(bits, 1, 20),
         channels |-> BitField(bits, 21, 3) + 1,
         bitdepth |-> BitField(bits, 24, 5) + 1,
         total_samples |-> BitField(bits, 29, 36)]

\* C15: for every 34-byte STREAMINFO block the decoder recovers the 20-bit
\* sample rate, the 3-bit channel count (+1), the 5-bit bit depth (+1) and the
\* 36-bit total sample count as packed contiguously from byte 10 of the
\* block, sets duration = total samples / sample rate, and sets the bitrate
\* from file size / duration only when duration > 0.
C15_StreamInfoBitPacking ==
    (si.called /\ si.parse_duration /\ si.extra = 0) =>
        /\ si.exc = ""
        /\ si.samplerate = PackedFields.samplerate
        /\ si.channels = PackedFields.channels
        /\ si.bitdepth = PackedFields.bitdepth
        /\ si.total_samples = PackedFields.total_samples
        /\ PackedFields.samplerate # 0
        /\ si.duration = Rat(PackedFields.total_samples, PackedFields.samplerate)
        /\ si.bitrate =
              IF si.duration.num > 0
              THEN RatDiv(RatMul(RatDiv(RatInt(si.filesize), si.duration), RatInt(8)),
                          RatInt(1000))
              ELSE Unset


\* the pass over a stream that opens with an ID3v2 tag is over
Id3v2Passed == iv.pc = "done" /\ iv.in # <<>> /\ iv.in.magic = "ID3"

\* the end offset of the tag: 10 + declared size
TagEnd == 10 + CalcSize(SubSeq(Id3v2Stream(iv.in), 7, 10), 7)

\* C20: ID3v2 frame iteration stops once the declared tag size is consumed,
\* counting frame headers and payloads: no frame header is read at or beyond
\* the tag's end offset (10 + declared size); a truncated frame header or a
\* frame of size 0 ends the iteration without raising; and whenever the
\* declared size is non-zero the read position after the pass is the tag's
\* end offset.
C20_FramesWithinTag ==
    Id3v2Passed =>
        /\ \A i \in DOMAIN iv.header_reads : iv.header_reads[i] < TagEnd
        /\ iv.exc = ""
        /\ TagEnd # 10 => iv.pos = TagEnd


\* the place of a chunk kind in the order of the stream, 0 when absent
PlaceOf(kind) ==
    IF \E i \in DOMAIN wv.in.order : wv.in.order[i] = kind
    THEN CHOOSE i \in DOMAIN wv.in.order : wv.in.order[i] = kind
    ELSE 0

\* the whole stream has been walked, its fmt chunk stands before its data
\* chunk and names at least one channel, and its LIST chunk, if any, holds
\* text
WaveRead ==
    /\ wv.pc = "done" /\ wv.in # <<>>
    /\ PlaceOf("fmt") < PlaceOf("data")
    /\ wv.in.channels # 0
    /\ wv.in.info # "bad"

\* the fields hold the text of the mapped sub-chunks of the LIST chunk
InfoTextHeld ==
    CASE wv.in.info = "song" -> wv.tag.attr["title"] = PyStr(<<83, 111, 110, 103>>)
      [] wv.in.info = "many" ->
            /\ wv.tag.attr["title"] = PyStr(<<83, 111, 110, 0, 66>>)
            /\ wv.tag.attr["track"] = PyInt(3)
            /\ PlaceOf("id3") = 0 => wv.tag.attr["artist"] = PyStr(<<65, 114, 116>>)
      [] OTHER -> TRUE

\* C16: for a stream RIFF....WAVE whose fmt chunk precedes its data chunk the
\* record holds the channels, sample rate and bit depth of fmt (a bit depth
\* of 0 replaced by 1), duration = data chunk size / channels / sample rate /
\* (bit depth / 8), and the text of each mapped LIST/INFO sub-chunk in its
\* field, wherever the LIST chunk stands.
C16_WaveEndToEnd ==
    WaveRead =>
        LET bitdepth == IF wv.in.bitdepth = 0 THEN 1 ELSE wv.in.bitdepth
        IN  /\ wv.exc = ""
            /\ wv.channels = PyInt(wv.in.channels)
            /\ wv.samplerate = PyInt(wv.in.samplerate)
            /\ wv.bitdepth = PyInt(bitdepth)
            /\ wv.duration =
                  Rat(wv.in.datasize * 8, wv.in.channels * wv.in.samplerate * bitdepth)
            /\ (wv.in.parse_tags /\ PlaceOf("LIST") # 0) => InfoTextHeld


\* C17: whenever a container decoder delegates to a nested decoder (ID3
\* inside WAV, AIFF or FLAC; FLAC inside Ogg), the nested decoder runs with
\* the configuration of its parent: the same parse-tags and load-image flags,
\* the same text-decoding-error policy and the same forced text encoding.
C17_NestedSharesConfiguration ==
    ns.pc = "delegated" =>
        /\ ns.nested.parse_tags = ns.self.parse_tags
        /\ ns.nested.load_image = ns.self.load_image
        /\ ns.nested.ignore_errors = ns.self.ignore_errors
        /\ ns.nested.default_encoding = ns.self.default_encoding


\* the offsets of the atom headers read, in order
HeaderOffsets == [i \in DOMAIN m4.reads |-> m4.reads[i].pos]

\* C18: an atom whose declared size leaves no payload (size minus the 8-byte
\* header <= 0) terminates the scan of the current branch: after such an atom
\* no further sibling of that branch is read or decoded.
C18_EmptyAtomEndsBranch ==
    \A i \in DOMAIN m4.reads : \A j \in DOMAIN m4.reads :
        (i < j /\ m4.reads[i].whole /\ m4.reads[i].size <= 0 /\ m4.reads[j].whole)
            => m4.reads[j].branch # m4.reads[i].branch

\* C19: while the walker traverses the children of an atom it never reads a
\* child atom header at or beyond the parent's end offset (parent start +
\* declared parent size), also when the parent is one of the versioned or
\* flagged atoms meta and stsd and when the last child is an empty atom.
C19_ChildHeadersInsideParent ==
    \A i \in DOMAIN m4.reads :
        (m4.reads[i].end # 0 /\ m4.reads[i].whole) => m4.reads[i].pos < m4.reads[i].end

ValidCandidate(data, pos) ==
    LET b1 == data[pos + 1]
        b2 == data[pos + 2]
        b3 == data[pos + 3]
    IN  /\ b1 = 255 /\ b2 \div 32 = 7
        /\ b3 \div 16 \in 1..14
        /\ (b3 \div 4) % 4 \in 0..2
        /\ (b2 \div 2) % 4 \in 1..3
        /\ (b2 \div 8) % 4 # 1

\* the offset of the next 0xFF byte after offset pos, the length of the
\* stream when there is none
NextSync(data, pos) ==
    LET later == {k \in (pos + 1)..(Len(data) - 1) : data[k + 1] = 255}
    IN  IF later = {} THEN Len(data) ELSE Min(later)

\* the sum of the bitrates of the frames of a pattern
PatternBitrates(mpeg_id, pattern) ==
    LET n(br_id) == Cardinality({i \in DOMAIN pattern : pattern[i] = br_id})
    IN  n(1) * BITRATE_BY_VERSION_BY_LAYER(mpeg_id, 1, 1)
            + n(2) * BITRATE_BY_VERSION_BY_LAYER(mpeg_id, 1, 2)

\* one round of the scan: it ends the scan or moves the read position
\* forward; on an invalid candidate it goes on, without an error, at the next
\* 0xFF byte
ScanRound ==
    (mp.pc = "scan" /\ mp' # mp) =>
        /\ mp'.pc = "done" \/ (mp'.pc = "scan" /\ mp'.pos > mp.pos)
        /\ (Len(mp.data) - mp.pos >= 4 /\ ~ValidCandidate(mp.data, mp.pos)) =>
                /\ mp'.pc = "scan" /\ mp'.exc = ""
                /\ mp'.pos = NextSync(mp.data, mp.pos)
                /\ mp'.frames = mp.frames

\* at the end of a stream of whole frames every frame has been counted and
\* the bitrate is the mean of their bitrates
EofAverage ==
    (mp.pc = "done" /\ mp.via = "eof" /\ ~mp.in.xing.present) =>
        /\ mp.exc = ""
        /\ mp.frames = Len(mp.in.pattern)
        /\ mp.frames # 0 =>
                mp.bitrate = Rat(PatternBitrates(mp.in.mpeg_id, mp.in.pattern), mp.frames)
        /\ mp.frames = 0 => mp.bitrate = Unset

\* C22: the MP3 duration scan terminates on every finite stream and does not
\* fail on an invalid sync candidate: a 4-byte candidate that fails the
\* validity test moves the scan to the next 0xFF byte after it (past the
\* remaining bytes when there is none), every round that does not end the
\* scan strictly advances the read position, and at the end of the stream the
\* bitrate is the average over the frames counted.
C22_ScanTerminates ==
    /\ [][ScanRound]_vars
    /\ []EofAverage
    /\ (mp.pc = "scan") ~> (mp.pc = "done")

\* a stream that begins with an invalid candidate has been scanned to its end
\* and its two frames, of 32 and 40 kbit/s, have been counted
C22_Witness ==
    /\ mp.pc = "done" /\ mp.via = "eof"
    /\ mp.in.prefix \in InvalidCandidates
    /\ mp.frames = 2 /\ mp.bitrate = [num |-> 36, den |-> 1]

\* the scan of a stream whose first valid frame has no Xing marker and whose
\* second frame holds one
LateXing == mp.pc # "idle" /\ mp.in.late.present

\* C23: the Xing fast path is taken only when the Xing marker lies within the
\* first valid frame: a marker behind the end of the first valid frame does
\* not trigger the fast path and does not move the read position, so every
\* header examined is counted as a frame and the scan goes from the first
\* frame to the frame that follows it.
C23_XingInsideFirstFrame ==
    LateXing =>
        /\ mp.via # "xing"
        /\ mp.pc = "scan" => mp.frames = Len(mp.headers)
        /\ Len(mp.headers) >= 2 =>
                mp.headers[2] = mp.headers[1] + FrameLen(mp.in.mpeg_id, 1)

(***************************************************************************)
(* C25                                                                     *)
(***************************************************************************)
\* the blocks the loop did not decode in place
Skipped(b) == b.branch = "seek"

\* C25: the blocks are handled in stream order; the block with the last-block
\* flag is handled and no header after it is read; a block of type 127 ends
\* the loop without an error; and every block that is not decoded in place
\* (an unknown type, or STREAMINFO, VORBIS_COMMENT, PICTURE with its option
\* off) is passed over by its declared size, the next header being read at
\* block start + 4 + size; and a loop that runs reaches its end
BlocksInOrder ==
    LET n == Len(fb.blocks) IN
    /\ \A i \in 1..n :
        LET b == fb.blocks[i] IN
        /\ i < n => /\ ~b.is_last_block
                    /\ b.block_type # 127
                    /\ fb.blocks[i + 1].start = b.pos
                    /\ b.start < fb.blocks[i + 1].start
        /\ (b.is_last_block \/ b.block_type = 127) => i = n /\ fb.pc = "done"
        /\ b.block_type = 127 => fb.exc = "" /\ b.branch = "invalid"
        /\ Skipped(b) <=>
                /\ b.block_type # 127
                /\ \/ b.block_type \notin {METADATA_STREAMINFO, METADATA_VORBIS_COMMENT,
                                           METADATA_PICTURE}
                   \/ b.block_type = METADATA_STREAMINFO /\ ~fb.parse_duration
                   \/ b.block_type = METADATA_VORBIS_COMMENT /\ ~fb.parse_tags
                   \/ b.block_type = METADATA_PICTURE /\ ~fb.load_image
        /\ Skipped(b) => b.pos = b.start + 4 + b.size
    /\ fb.pc = "block" => fb.start = (IF n = 0 THEN 4 ELSE fb.blocks[n].pos)

C25_BlocksInOrder == []BlocksInOrder /\ ((fb.pc = "block") ~> (fb.pc = "done"))

C25_Witness ==
    /\ fb.pc = "done" /\ fb.exc = "" /\ Len(fb.blocks) = 2
    /\ fb.blocks[1].block_type = METADATA_PICTURE /\ Skipped(fb.blocks[1])
    /\ fb.blocks[2].block_type = 127 /\ ~fb.blocks[2].is_last_block
    /\ fb.pos < Len(fb.data)

(***************************************************************************)
(* C24                                                                     *)
(***************************************************************************)
\* a packet with none of the prefixes that _parse_tag tests
Unrecognized(packet) == PacketBranch(packet, FALSE, FALSE) = "break"

\* packet k follows a packet h that the loop took as the header named, with
\* no packet without a recognized prefix between the two
FirstAfter(k, header) ==
    \E h \in 1..(k - 1) :
        /\ ot.handled[h] = header
        /\ \A j \in (h + 1)..(k - 1) : ~Unrecognized(ot.packets[j])

\* C24: the packets are handled in stream order; a packet without a
\* recognized prefix is taken as the FLAC metadata block only when it is the
\* first such packet after a FLAC header packet, and as the Speex comment
\* packet only when it is the first such packet after a Speex header packet;
\* any other packet without a recognized prefix ends the loop without an
\* error, and no packet after it is handled
C24_PacketStateMachine ==
    /\ Len(ot.handled) = ot.i - 1
    /\ \A k \in 1..Len(ot.handled) :
        Unrecognized(ot.packets[k]) =>
            /\ ot.handled[k] \in {"FLAC metadata", "Speex comment", "break"}
            /\ ot.handled[k] = "FLAC metadata" => FirstAfter(k, "FLAC header")
            /\ ot.handled[k] = "Speex comment" => FirstAfter(k, "Speex header")
            /\ ot.handled[k] = "break" =>
                    /\ k = Len(ot.handled) /\ ot.pc = "done"
                    /\ ot.exc = ""


(***************************************************************************)
(* C26: the object loop of _Wma._parse_tag                                 *)
(***************************************************************************)
\* one round of the loop, by the object it has handled: the loop stops at an
\* object whose size is 0 or beyond filesize and at no other object unless an
\* exception ends it, a round that goes on leaves fh behind the offset the
\* object began at, and an object with an unknown id is read over to the
\* offset size - 24 behind its id and size
ObjectRound ==
    (wm.pc = "object" /\ wm'.pc # "idle") =>
        /\ (wm'.branch = "break") <=> (wm'.size = 0 \/ wm'.size > wm'.filesize)
        /\ (wm'.pc = "done" /\ wm'.exc = "") => wm'.branch = "break"
        /\ wm'.pc = "object" => wm'.pos > wm'.began
        /\ wm'.branch = "unknown" => wm'.pos = (wm'.read + wm'.size) - 24

\* C26: the object loop ends on every stream: it stops at the first object of
\* size 0 or of a size beyond the file size, every round before leaves the
\* read offset behind the start of its object, and an object with an unknown
\* id is read over by size - 24 bytes
C26_ObjectLoopTerminates ==
    /\ [][ObjectRound]_vars
    /\ (wm.pc = "object") ~> (wm.pc = "done")


(***************************************************************************)
(* C27: the duration pass of _Ogg                                          *)
(***************************************************************************)
\* OggS stands at offset k of the stream
OggSAt(k) == SubSeq(od.data, k + 1, k + 4) = <<79, 103, 103, 83>>

\* the largest granule position of the pages parsed so far
MaxGranule == Max({od.granules[i] : i \in DOMAIN od.granules})

\* the pass is entered when the tag pass has left a sample rate and no
\* duration, and it begins at most max_page_size bytes before the end of
\* the stream, at offset 0 in a stream of no more bytes
PassBegins ==
    /\ (od.data # <<>> /\ od.exc = "" /\ od.start = -1) =>
            (od.samplerate = 0 \/ od.duration # Unset)
    /\ od.start # -1 =>
            /\ od.samplerate # 0
            /\ 0 <= od.start /\ od.filesize - od.start <= max_page_size
            /\ od.filesize <= max_page_size => od.start = 0

\* the pass has ended: with an OggS at or behind its start it has gone to
\* the first one and, unless a page has raised, has parsed the pages to the
\* end of the stream and set the duration; with none it has set no duration
PassEnds ==
    (od.pc = "done" /\ od.start # -1) =>
        IF \E k \in od.start..(Len(od.data) - 4) : OggSAt(k)
        THEN /\ od.found >= od.start /\ OggSAt(od.found)
             /\ \A k \in od.start..(od.found - 1) : ~OggSAt(k)
             /\ od.exc = "" =>
                    /\ od.pos = Len(od.data)
                    /\ od.duration = Rat(MaxGranule, od.samplerate)
             /\ od.exc # "" => od.duration = Unset
        ELSE od.found = -1 /\ od.duration = Unset /\ od.exc = ""

\* a round of the loop does not lower the maximum, which is the largest
\* granule position parsed
MaximumGrows ==
    /\ od.pc = "scan" => od'.max_samplenum >= od.max_samplenum
    /\ od'.granules # <<>> =>
            od'.max_samplenum = Max({od'.granules[i] : i \in DOMAIN od'.granules})

C28_GenreByIndex ==
    (ge.pc = "done" /\ ge.exc = "") =>
        IF 0 <= ge.v - 1 /\ ge.v - 1 < ID3V1_GENRES_LEN
        THEN \/ GetField(ge.tag, "genre") = PyStr(ID3V1_GENRES(ge.v - 1))
             \/ ID3V1_GENRES(ge.v - 1) = <<>> /\ GetField(ge.tag, "genre") = PyNone
        ELSE GetField(ge.tag, "genre") = PyNone

\* C29: when load-image is false, the cover image of the record is unset
\* after any parse, in every decoder and on every stream: the PICTURE block
\* of FLAC, the picture comment and the FLAC blocks inside Ogg, the APIC and
\* PIC frames of an ID3v2 tag alone, inside WAVE, inside AIFF and before
\* FLAC, and the covr item of MP4 leave get_image() with nothing to return
C29_NoImageUnlessAsked ==
    /\ ~fb.load_image => fb.image = NoImage
    /\ ~ot.load_image => ot.image = NoImage
    /\ ~im.self.load_image => im.image = NoImage

\* a FLAC stream behind an ID3v2 tag with a title and an APIC frame, with a
\* PICTURE block, has been parsed for its tags without load-image and holds
\* no image, and the same parse with load-image holds one
C29_Witness ==
    /\ im.pc = "done" /\ im.exc = ""
    /\ im.self.cls = "_Flac" /\ im.self.parse_tags /\ ~im.self.load_image
    /\ im.data = PictureTag(3, <<"title", "apic">>) \o <<102, 76, 97, 67>>
                    \o FlacBlockBytes(METADATA_STREAMINFO, FALSE, 34, StreamInfoBody)
                    \o FlacBlockBytes(METADATA_PICTURE, TRUE,
                                      Len(PictureBody(PictureBytes)),
                                      PictureBody(PictureBytes))
    /\ im.image = NoImage
    /\ ImageLoad([im.self EXCEPT !.load_image = TRUE], im.data).image
            = [set |-> TRUE, bytes |-> PictureBytes]

\* C30: when parse-tags is false and parse-duration is true, the parse
\* leaves the descriptive fields as the empty record has them: in every
\* decoder and on every stream title, artist, album, genre, comment, year,
\* track, track_total, disc and disc_total are unset and the extension
\* mapping is empty; the audio properties are kept apart from the record and
\* may be set.  A parse of WMA or WAVE that is not for the tags is for the
\* duration, and a walk of MP4 along the audio tree is the one for the
\* duration
C30_DurationOnlyLeavesRecordEmpty ==
    /\ (~fb.parse_tags /\ fb.parse_duration) => fb.tag = NewTag
    /\ (~ot.parse_tags /\ ot.parse_duration) => ot.tag = NewTag
    /\ ~wm.parse_tags => wm.tag = NewTag
    /\ (wv.pc # "idle" /\ ~wv.in.parse_tags) => wv.tag = NewTag
    /\ (m4.pc # "idle" /\ m4.in.tree = "audio") => m4.tag = NewTag
    /\ (~im.self.parse_tags /\ im.self.parse_duration) => im.tag = NewTag

\* a FLAC stream behind an ID3v2 tag with a title, with the blocks STREAMINFO
\* and VORBIS_COMMENT, has been parsed for the duration alone and its record
\* is empty, and the same parse for the tags too holds the title of the
\* comment and of the frame
C30_Witness ==
    /\ im.pc = "done" /\ im.exc = ""
    /\ im.self.cls = "_Flac" /\ ~im.self.parse_tags /\ im.self.parse_duration
    /\ im.data = PictureTag(3, <<"title">>) \o <<102, 76, 97, 67>>
                    \o FlacBlockBytes(METADATA_STREAMINFO, FALSE, 34, StreamInfoBody)
                    \o FlacBlockBytes(METADATA_VORBIS_COMMENT, TRUE,
                                      Len(VorbisBody(<<TitleA>>)), VorbisBody(<<TitleA>>))
    /\ im.tag = NewTag
    /\ FlacLoad(im.data, 22, Len(im.data), FALSE, TRUE, FALSE).duration = Rat(2, 1)
    /\ ImageLoad([im.self EXCEPT !.parse_tags = TRUE], im.data).tag.attr["title"]
            # PyNone

=============================================================================
